---- MODULE Spec2Model ----
(***************************************************************************)
(* RIFAST relayer: the two Bull queues (relayer-tx-main, relayer-tx-retry), *)
(* the transaction worker that consumes them, the Executor's chain calls   *)
(* through the single ethers signer, and the HTTP handlers that either     *)
(* enqueue a job or call the contract themselves.                          *)
(*                                                                         *)
(* Time is kept per Retry-queue entry: delayLeft is the time still to pass *)
(* before a delayed entry may be promoted (Bull keeps timestamp + delay),  *)
(* age the time passed since the entry was added.  Tick lets TickMs pass.  *)
(*                                                                         *)
(* Queue semantics that the repository only configures are Bull's:         *)
(*  - process(1, handler) gives each queue its own consumer, one job at a  *)
(*    time per queue;                                                      *)
(*  - add() with a jobId that already exists adds nothing;                 *)
(*  - a failed attempt increments attemptsMade; while attemptsMade is      *)
(*    below opts.attempts the entry is delayed by the backoff, otherwise   *)
(*    it is failed;                                                        *)
(*  - the built-in exponential backoff is (2^attemptsMade - 1) * delay;    *)
(*  - an active entry whose lock is no longer renewed (its process died)   *)
(*    is moved back to the head of wait by the stalled-jobs check, until   *)
(*    its stalledCounter exceeds maxStalledCount, and then failed.         *)
(***************************************************************************)
EXTENDS Integers, Sequences, FiniteSets, TLC

\* ------------------------------------------------------------------ bounds
MaxJobs == 2        \* jobs admitted to the Main queue
MaxDirect == 1      \* HTTP requests served by a handler that calls the contract
MaxCrashes == 1     \* process restarts
MaxAgeTicks == 5    \* the age of a Retry entry is counted up to MaxAgeTicks * TickMs
MaxClients == 1     \* client IPs that send requests

\* ------------------------------------------------------- program constants
\* (a Main queue that retries in place: attempts 2)
MainAttemptsTwo == 1 + 1
MainAttempts == 1           \* txQueue defaultJobOptions.attempts
MainMaxStalledCount == 3    \* txQueue settings.maxStalledCount
\* (a Retry queue with one attempt more)
RetryAttemptsFour == 3 + 1
RetryAttempts == 3          \* txRetryQueue defaultJobOptions.attempts
BackoffDelay == 5000        \* txRetryQueue defaultJobOptions.backoff.delay
RetryMaxStalledCount == 2   \* txRetryQueue settings.maxStalledCount
MaxBatch == 100             \* addToBlocklistBatch: entries.length > 100
RetryInitialDelay == 5000   \* moveToRetryQueue: delay
TickMs == BackoffDelay      \* time passes in steps of the base delay
MainRemoveOnComplete == 100 \* txQueue defaultJobOptions.removeOnComplete
RetryRemoveOnComplete == 100 \* txRetryQueue defaultJobOptions.removeOnComplete
RetryRemoveOnFail == 500    \* txRetryQueue defaultJobOptions.removeOnFail
FailureRateLimit == 10      \* getQueueStatus: failureRate > 10
BacklogLimit == 100         \* getQueueStatus: backlogSize > 100
StalledLimit == 5           \* getQueueStatus: metrics.stalledJobs > 5
requestsPerMinute == 10     \* RATE_LIMIT_CONFIG.requestsPerMinute, by default
WindowMs == 60000           \* checkRateLimit: resetAt: now + 60_000
SensitiveWindowMs == 300000 \* sensitiveLimiter windowMs: 5 * 60 * 1000
SensitiveMax == 1           \* sensitiveLimiter max

VARIABLES
  txQueue,        \* Main queue: id -> entry (state "none" before admission)
  mainWait,       \* Main queue wait list, head is dequeued next
  txRetryQueue,   \* Retry queue: retry id -> entry; the domain grows
  retryWait,      \* Retry queue wait list
  jobCounter,     \* last id the Main queue assigned
  worker,         \* the two consumers' handlers: "main", "retry"
  http,           \* the HTTP handler that calls the contract itself
  directCalls,    \* HTTP requests served that way so far
  pendingNonce,   \* the signer's next pending nonce at the node
  broadcasts,     \* Main id -> transactions broadcast for that job so far
  crashes,        \* process restarts so far
  metrics,        \* the Monitor's in-process counters and last-failure record
  status,         \* GET /relayer/queue/status: the counts read, the response
  api,            \* the HTTP handler of an enqueueing endpoint: request, response
  rateLimitStore, \* rateLimitMiddleware: client IP -> the entry of its window
  admitted,       \* client IP -> the requests rateLimitMiddleware let pass lately
  gate,           \* the last request through the security middleware, its answer
  sensitiveStore, \* sensitiveLimiter's store: client IP -> hits and window
  sensitiveOps,   \* client IP -> the sensitive operations let through lately
  stop,           \* stopTransactionWorker: its position, the queues closed
  reports,        \* Main id -> the final-attempt reports logged for the job
  timedOut,       \* consumer -> the handler Bull's timeout left running
  reads           \* queue -> the counts of a status request answered so far

vars == <<txQueue, mainWait, txRetryQueue, retryWait, jobCounter, worker, http,
          directCalls, pendingNonce, broadcasts, crashes, metrics, status, reads, api,
          rateLimitStore, admitted, gate, sensitiveStore, sensitiveOps, stop,
                 reports, timedOut>>

\* -------------------------------------------------------------- job model
JobIds == 1..MaxJobs

\* Two of the eleven payload shapes: one whose Executor estimates gas first,
\* one without payload fields (raffleId 0 stands for "no such field").
JobData == { [type |-> "execute-refund", raffleId |-> 1],
             [type |-> "withdraw-fees", raffleId |-> 0] }

GasEstimatedTypes == {"execute-raffle", "cancel-raffle", "execute-refund"}

\* The cases of executeTransaction's switch, each with the contract method
\* its executor calls.
ContractMethod(type) ==
  CASE type = "create-raffle" -> "createRaffle"
    [] type = "execute-raffle" -> "executeRaffle"
    [] type = "cancel-raffle" -> "cancelRaffle"
    [] type = "execute-refund" -> "executeRefundBatch"
    [] type = "pause-contract" -> "pause"
    [] type = "unpause-contract" -> "unpause"
    [] type = "add-to-blocklist" -> "addToBlocklist"
    [] type = "add-to-blocklist-batch" -> "addToBlocklistBatch"
    [] type = "remove-from-blocklist" -> "removeFromBlocklist"
    [] type = "withdraw-fees" -> "withdrawPlatformFees"
    [] type = "archive-raffles" -> "archiveRaffles"
    [] OTHER -> ""

KnownTypes ==
  {"create-raffle", "execute-raffle", "cancel-raffle", "execute-refund",
   "pause-contract", "unpause-contract", "add-to-blocklist",
   "add-to-blocklist-batch", "remove-from-blocklist", "withdraw-fees",
   "archive-raffles"}

\* Values contract.<call>.estimateGas may resolve to: one that the margin
\* leaves as it is once truncated, one that it raises.
GasEstimates == {4, 5}

\* (the margin rounded up instead of down)
GasLimitRoundedUp(gasEstimate) == (gasEstimate * 120 + 99) \div 100

\* gasEstimate * 120n / 100n: BigInt division truncates.
GasLimit(gasEstimate) == (gasEstimate * 120) \div 100

\* tx.hash of the transaction the signer broadcast with a nonce: one hash per
\* nonce, since the node accepts one transaction per nonce.
TxHash(nonce) == <<"0x", nonce>>

\* (a result that carries the hash alone)
ExecutorResultNoEcho(type, data, txHash) == [txHash |-> txHash]

\* What the executor of a type returns once tx.wait() has resolved.
ExecutorResult(type, data, txHash) ==
  CASE type = "create-raffle" ->
         [txHash |-> txHash, referenceId |-> ToString(data.referenceId)]
    [] type \in GasEstimatedTypes ->
         [txHash |-> txHash, raffleId |-> ToString(data.raffleId)]
    [] type \in {"add-to-blocklist", "remove-from-blocklist"} ->
         [txHash |-> txHash, address |-> data.address, confirmed |-> TRUE]
    [] type = "add-to-blocklist-batch" ->
         [txHash |-> txHash, count |-> Len(data.addresses), confirmed |-> TRUE]
    [] type = "archive-raffles" ->
         [txHash |-> txHash, count |-> Len(data.raffleIds)]
    [] OTHER -> [txHash |-> txHash, confirmed |-> TRUE]

\* (an id made from the Main entry's id and the number of its delivery)
RetryIdPerDelivery(originalJobId) ==
  <<"retry", originalJobId, txQueue[originalJobId].calls>>

\* `retry-${originalJobId}`
RetryId(originalJobId) == <<"retry", originalJobId>>

Consumers == {"main", "retry"}

\* A handler: where it stands, the entry it works on, the nonce its signer
\* read, and, of the Executor call it is in, the gas estimate and the limit
\* computed from it (kept until the call they are passed to has resolved),
\* the contract methods called so far and the transaction broadcast.
Idle == [pc |-> "idle", job |-> <<>>, nonce |-> 0, gasEstimate |-> <<>>,
         gasLimit |-> <<>>, submitted |-> <<>>, tx |-> <<>>]

\* A handler whose attempt Bull has ended by the job's timeout: the promise
\* of the handler goes on, with the Job object it was given (attemptsMade as
\* Bull left it when it failed the attempt).
Orphan(h, attemptsMade) ==
  [pc |-> h.pc, job |-> h.job, nonce |-> h.nonce, gasEstimate |-> h.gasEstimate,
   gasLimit |-> h.gasLimit, submitted |-> h.submitted, tx |-> h.tx,
   attemptsMade |-> attemptsMade]

NoOrphan == Orphan(Idle, 0)

\* A Main-queue entry: calls counts the deliveries of the entry to
\* processMainQueueJob, each of which invokes the Executor once.
NoEntry == [state |-> "none", data |-> [type |-> "", raffleId |-> 0],
            attemptsMade |-> 0, stalledCounter |-> 0, calls |-> 0,
            returnvalue |-> <<>>]

RECURSIVE Pow2(_)
Pow2(n) == IF n = 0 THEN 1 ELSE 2 * Pow2(n - 1)

Min(a, b) == IF a < b THEN a ELSE b
Max(a, b) == IF a > b THEN a ELSE b

\* Bull's built-in exponential backoff after the attemptsMade-th failure.
ExponentialBackoff(attemptsMade) == (Pow2(attemptsMade) - 1) * BackoffDelay

\* ---------------------------------------------------------------- Monitor
\* const metrics = { completedJobs: 0, failedJobs: 0, stalledJobs: 0 }, no
\* lastFailure.
NoMetrics == [completedJobs |-> 0, failedJobs |-> 0, stalledJobs |-> 0,
              lastFailure |-> <<>>]

\* No request to an enqueueing endpoint has been served yet.
NoRequest == [pc |-> "idle", endpoint |-> "", body |-> <<>>, job |-> <<>>,
              response |-> <<>>]

\* No request for the queue status is being served.
NoStatus == [pc |-> "idle", counts |-> <<>>, response |-> <<>>]

\* None of the counts of a status request has been answered.
NoReads == [c \in Consumers |-> <<>>]

\* The error a failed event carries: the rejection of the hand-off's add, or
\* Bull's "job stalled more than allowable limit".
AddError == "add rejected"
StalledError == "job stalled more than allowable limit"

\* (the completed event of a handed-off job counted as a failure instead)
MainCompletedAsFailed(m) == [m EXCEPT !.failedJobs = @ + 1]

\* txQueue.on('completed'): metrics.completedJobs++.
MainCompletedListener(m) == [m EXCEPT !.completedJobs = @ + 1]

\* txQueue.on('failed'): metrics.failedJobs++, lastFailure = the job.
MainFailedListener(m, id, type, err) ==
  [m EXCEPT !.failedJobs = @ + 1,
            !.lastFailure = <<[jobId |-> id, type |-> type, error |-> err]>>]

\* txQueue.on('stalled'): metrics.stalledJobs++.
MainStalledListener(m) == [m EXCEPT !.stalledJobs = @ + 1]

\* txRetryQueue.on('completed'), on('failed'), on('stalled'): they log, and
\* leave the metrics as they are.
RetryCompletedListener(m) == m

\* (a Retry failure counted like a Main failure)
RetryFailedListenerCounted(m, rid, type, err) ==
  [m EXCEPT !.failedJobs = @ + 1,
            !.lastFailure = <<[jobId |-> rid, type |-> type, error |-> err]>>]

RetryFailedListener(m, rid, type, err) == m
RetryStalledListener(m) == m

\* ---------------------------------------------------- security middleware
\* Time at the rate limiter is kept per entry, as it is per Retry entry:
\* resetIn stands for resetAt - Date.now(), an expired window stays at
\* -HalfWindow (every resetAt in the past behaves alike), and admitted keeps
\* the age of each request let through less than WindowMs ago.
ClientIP(i) == <<"10.0.0", i>>
ClientIPs == {ClientIP(i) : i \in 1..MaxClients}

\* RELAYER_API_KEY, and the values of the X-API-Key header of a request.
RELAYER_API_KEY == "relayer-key"
ApiKeys == {"#missing", "wrong-key", RELAYER_API_KEY}

\* ALLOWED_IPS when the environment sets none: no whitelist.
ALLOWED_IPS == {}

Paths == {"/health", "/pause-system", "/unpause-system", "/withdraw-fees"}

\* ADMIN_IPS as a deployment sets it: the clients' addresses.
ADMIN_IPS == ClientIPs

HalfWindow == WindowMs \div 2

\* stopTransactionWorker has not been called: held keeps the entries that
\* were active when it is, closed the queues whose close() has resolved.
NoStop == [pc |-> "running", held |-> <<>>,
           closed |-> [c \in Consumers |-> FALSE]]

\* No request has come in yet.
NoGate == [path |-> "", apiKey |-> "", code |-> 0, handler |-> "", body |-> <<>>]

\* ------------------------------------------------------------------- Init
Init ==
  /\ txQueue = [i \in JobIds |-> NoEntry]
  /\ mainWait = <<>>
  /\ txRetryQueue = <<>>
  /\ retryWait = <<>>
  /\ jobCounter = 0
  /\ worker = [c \in Consumers |-> Idle]
  /\ http = Idle
  /\ directCalls = 0
  /\ pendingNonce = 0
  /\ broadcasts = [i \in JobIds |-> 0]
  /\ crashes = 0
  /\ metrics = NoMetrics
  /\ status = NoStatus
  /\ api = NoRequest
  /\ rateLimitStore = [ip \in ClientIPs |-> <<>>]
  /\ admitted = [ip \in ClientIPs |-> <<>>]
  /\ gate = NoGate
  /\ sensitiveStore = [ip \in ClientIPs |-> <<>>]
  /\ sensitiveOps = [ip \in ClientIPs |-> <<>>]
  /\ stop = NoStop
  /\ reports = [i \in JobIds |-> <<>>]
  /\ timedOut = [c \in Consumers |-> NoOrphan]
  /\ reads = NoReads

\* ---------------------------------------------------------------- enqueue
\* (a queue that adds at the end its consumer takes from: lifo)
QueueAddLifo(wait, id) == <<id>> \o wait

\* Bull's add without lifo or priority options: the entry goes to the end of
\* the wait list opposite to the one the consumer takes from.
QueueAdd(wait, id) == Append(wait, id)

\* enqueueTransaction: txQueue.add(jobData) assigns the next id and appends
\* the entry to the wait list.  The caller's own state is the caller's.
enqueueTransaction(jobData) ==
  /\ jobCounter < MaxJobs
  /\ ~stop.closed["main"]
  /\ jobCounter' = jobCounter + 1
  /\ txQueue' = [txQueue EXCEPT ![jobCounter + 1] =
                   [NoEntry EXCEPT !.state = "waiting", !.data = jobData]]
  /\ mainWait' = QueueAdd(mainWait, jobCounter + 1)
  /\ UNCHANGED <<txRetryQueue, retryWait, worker, http, directCalls,
                 pendingNonce, broadcasts, crashes, metrics, status, reads,
                 rateLimitStore, admitted, gate, sensitiveStore, sensitiveOps, stop,
                 reports, timedOut>>

\* A job admitted for a caller that is not followed further.
enqueueJob(jobData) == enqueueTransaction(jobData) /\ UNCHANGED api

\* ------------------------------------------------- handler continuations
\* A handler that is inside executeTransaction (an Executor call started and
\* neither confirmed nor failed).
ExecutorPcs == {"estimateGas", "getNonce", "send", "wait", "default"}

\* The payload of the entry a consumer's handler works on.
JobOf(c) ==
  IF c = "main" THEN txQueue[worker[c].job[1]].data
  ELSE txRetryQueue[worker[c].job[1]].data

\* The Main id of the job a consumer's handler works on (a Retry entry keeps
\* the payload of the Main entry it was made from).
OriginOf(c) ==
  IF c = "main" THEN worker[c].job[1] ELSE txRetryQueue[worker[c].job[1]].origin

\* The first await of the Executor for a job type: the three raffle calls with
\* unpredictable gas estimate first, the others go straight to the call, which
\* has the signer read its pending nonce.
FirstStep(type) ==
  IF type \in GasEstimatedTypes THEN "estimateGas"
  ELSE IF type \in KnownTypes THEN "getNonce"
  ELSE "default"

\* { success: true, ...result }
MainReturn(result) == [success |-> TRUE] @@ result

\* { success: true, wasRetry: true, ...result }
RetryReturn(result) == [success |-> TRUE, wasRetry |-> TRUE] @@ result

\* processMainQueueJob, try branch: return { success: true, ...result };
\* Bull moves the entry to completed and emits 'completed'.
MainSucceeded ==
  LET id == worker["main"].job[1]
      result == ExecutorResult(txQueue[id].data.type, txQueue[id].data,
                               worker["main"].tx[1].hash) IN
  /\ txQueue' = [txQueue EXCEPT ![id].state = "completed",
                   ![id].returnvalue = <<MainReturn(result)>>]
  /\ worker' = [worker EXCEPT !["main"] = Idle]
  /\ metrics' = MainCompletedListener(metrics)
  /\ UNCHANGED <<mainWait, txRetryQueue, retryWait, reports, timedOut>>

\* processMainQueueJob, catch branch up to its await: moveToRetryQueue is
\* called and its add is awaited.
MainCaught ==
  /\ worker' = [worker EXCEPT !["main"].pc = "moveToRetry"]
  /\ UNCHANGED <<txQueue, mainWait, txRetryQueue, retryWait, metrics, reports, timedOut>>

\* processRetryQueueJob, try branch:
\* return { success: true, wasRetry: true, ...result }.
RetrySucceeded ==
  LET rid == worker["retry"].job[1]
      result == ExecutorResult(txRetryQueue[rid].data.type, txRetryQueue[rid].data,
                               worker["retry"].tx[1].hash) IN
  /\ txRetryQueue' = [txRetryQueue EXCEPT ![rid].state = "completed",
                        ![rid].returnvalue = <<RetryReturn(result)>>]
  /\ worker' = [worker EXCEPT !["retry"] = Idle]
  /\ metrics' = RetryCompletedListener(metrics)
  /\ UNCHANGED <<txQueue, mainWait, retryWait, reports, timedOut>>

\* (one attempt too many before the entry is failed)
AfterFailedAttemptOffByOne(e) ==
  LET made == e.attemptsMade + 1 IN
  IF made <= RetryAttempts
  THEN [e EXCEPT !.attemptsMade = made, !.state = "delayed",
                 !.delayLeft = ExponentialBackoff(made),
                 !.waits = Append(@, ExponentialBackoff(made))]
  ELSE [e EXCEPT !.attemptsMade = made, !.state = "failed"]

\* What Bull does with an entry whose handler threw: one more attempt made;
\* delayed by the backoff while attempts remain, failed otherwise.
AfterFailedAttempt(e) ==
  LET made == e.attemptsMade + 1 IN
  IF made < RetryAttempts
  THEN [e EXCEPT !.attemptsMade = made, !.state = "delayed",
                 !.delayLeft = ExponentialBackoff(made),
                 !.waits = Append(@, ExponentialBackoff(made))]
  ELSE [e EXCEPT !.attemptsMade = made, !.state = "failed"]

\* (a catch branch that returns { success: false } instead of throwing)
RetrySwallowed ==
  LET rid == worker["retry"].job[1] IN
  /\ txRetryQueue' = [txRetryQueue EXCEPT ![rid].state = "completed",
                        ![rid].returnvalue = <<[success |-> FALSE, wasRetry |-> TRUE]>>]
  /\ worker' = [worker EXCEPT !["retry"] = Idle]
  /\ metrics' = RetryCompletedListener(metrics)
  /\ UNCHANGED <<txQueue, mainWait, retryWait, reports, timedOut>>

\* processRetryQueueJob, catch branch:
\* isFinalAttempt = job.attemptsMade + 1 >= (job.opts.attempts || 3), on the
\* job the handler was given (the attempt in progress is not counted yet);
\* logger.error('... FAILED PERMANENTLY ...') when it is true.
WorkerReport(job) ==
  IF job.attemptsMade + 1 >= RetryAttempts THEN <<"FAILED PERMANENTLY">>
  ELSE <<>>

\* txRetryQueue.on('failed'): the same test on the job Bull emits the event
\* with; 'EXHAUSTED' when true, 'failed, will retry' otherwise.
MonitorReport(job) ==
  IF job.attemptsMade + 1 >= RetryAttempts THEN <<"EXHAUSTED">>
  ELSE <<"will retry">>

\* processRetryQueueJob, catch branch: throw error.  Bull counts the attempt
\* (attemptsMade++) and then emits 'failed', for every failed attempt, the
\* final one or not.
RetryThrew ==
  LET rid == worker["retry"].job[1]
      job == txRetryQueue[rid] IN
  /\ txRetryQueue' = [txRetryQueue EXCEPT ![rid] = AfterFailedAttempt(@)]
  /\ worker' = [worker EXCEPT !["retry"] = Idle]
  /\ metrics' = RetryFailedListener(metrics, rid, txRetryQueue[rid].data.type,
                                     "executor")
  /\ reports' = [reports EXCEPT ![job.origin] =
                    @ \o WorkerReport(job) \o MonitorReport(AfterFailedAttempt(job))]
  /\ UNCHANGED <<txQueue, mainWait, retryWait, timedOut>>

ExecutorSucceeded(c) == IF c = "main" THEN MainSucceeded ELSE RetrySucceeded
ExecutorFailed(c) == IF c = "main" THEN MainCaught ELSE RetryThrew

\* --------------------------------------------------------------- Executor
\* contract.<call>.estimateGas(...) resolves: gasLimit is the estimate with
\* its margin.
estimateGasOk(c) ==
  /\ worker[c].pc = "estimateGas"
  /\ \E gasEstimate \in GasEstimates :
       worker' = [worker EXCEPT ![c].pc = "getNonce",
                                ![c].gasEstimate = <<gasEstimate>>,
                                ![c].gasLimit = <<GasLimit(gasEstimate)>>]
  /\ UNCHANGED <<txQueue, mainWait, txRetryQueue, retryWait, metrics>>
  /\ UNCHANGED <<jobCounter, http, directCalls, pendingNonce, broadcasts, crashes, status, reads, api,
                 rateLimitStore, admitted, gate, sensitiveStore, sensitiveOps, stop,
                 reports, timedOut>>

\* contract.<call>.estimateGas(...) rejects: nothing is submitted.
estimateGasFail(c) ==
  /\ worker[c].pc = "estimateGas"
  /\ ExecutorFailed(c)
  /\ UNCHANGED <<jobCounter, http, directCalls, pendingNonce, broadcasts, crashes, status, reads, api,
                 rateLimitStore, admitted, gate, sensitiveStore, sensitiveOps, stop>>

\* contract.<call>(...), with { gasLimit } where one was computed: the signer
\* reads getNonce('pending').
signerGetNonce(c) ==
  /\ worker[c].pc = "getNonce"
  /\ worker' = [worker EXCEPT
                  ![c].pc = "send",
                  ![c].nonce = pendingNonce,
                  ![c].submitted = Append(@, ContractMethod(JobOf(c).type))]
  /\ UNCHANGED <<txQueue, mainWait, txRetryQueue, retryWait, metrics>>
  /\ UNCHANGED <<jobCounter, http, directCalls, pendingNonce, broadcasts, crashes, status, reads, api,
                 rateLimitStore, admitted, gate, sensitiveStore, sensitiveOps, stop,
                 reports, timedOut>>

\* (an executor that returns its result without awaiting tx.wait())
sendOkNoWait(c) ==
  /\ worker[c].pc = "send"
  /\ worker[c].nonce = pendingNonce
  /\ pendingNonce' = pendingNonce + 1
  /\ broadcasts' = [broadcasts EXCEPT ![OriginOf(c)] = @ + 1]
  /\ LET result == ExecutorResult(JobOf(c).type, JobOf(c), TxHash(worker[c].nonce)) IN
       IF c = "main"
       THEN /\ txQueue' = [txQueue EXCEPT ![worker[c].job[1]].state = "completed",
                             ![worker[c].job[1]].returnvalue = <<MainReturn(result)>>]
            /\ metrics' = MainCompletedListener(metrics)
            /\ UNCHANGED txRetryQueue
       ELSE /\ txRetryQueue' = [txRetryQueue EXCEPT
                                  ![worker[c].job[1]].state = "completed",
                                  ![worker[c].job[1]].returnvalue = <<RetryReturn(result)>>]
            /\ metrics' = RetryCompletedListener(metrics)
            /\ UNCHANGED txQueue
  /\ worker' = [worker EXCEPT ![c] = Idle]
  /\ UNCHANGED <<mainWait, retryWait>>
  /\ UNCHANGED <<jobCounter, http, directCalls, crashes, status, reads, api,
                 rateLimitStore, admitted, gate, sensitiveStore, sensitiveOps, stop,
                 reports, timedOut>>

\* contract.<call>(...) resolves: the signed transaction is broadcast and
\* accepted; the node's pending nonce moves on.  tx is the handle returned.
sendOk(c) ==
  /\ worker[c].pc = "send"
  /\ worker[c].nonce = pendingNonce
  /\ pendingNonce' = pendingNonce + 1
  /\ broadcasts' = [broadcasts EXCEPT ![OriginOf(c)] = @ + 1]
  /\ worker' = [worker EXCEPT
                  ![c].pc = "wait",
                  ![c].tx = <<[hash |-> TxHash(worker[c].nonce)]>>,
                  ![c].gasEstimate = <<>>,
                  ![c].gasLimit = <<>>]
  /\ UNCHANGED <<txQueue, mainWait, txRetryQueue, retryWait, metrics>>
  /\ UNCHANGED <<jobCounter, http, directCalls, crashes, status, reads, api,
                 rateLimitStore, admitted, gate, sensitiveStore, sensitiveOps, stop,
                 reports, timedOut>>

\* (a submission that fails is made once more)
sendFailAndResubmit(c) ==
  /\ worker[c].pc = "send"
  /\ IF Len(worker[c].submitted) < 2
     THEN /\ worker' = [worker EXCEPT ![c].pc = "getNonce"]
          /\ UNCHANGED <<txQueue, mainWait, txRetryQueue, retryWait, metrics,
                         reports, timedOut>>
     ELSE ExecutorFailed(c)
  /\ UNCHANGED <<jobCounter, http, directCalls, pendingNonce, broadcasts, crashes, status, reads, api,
                 rateLimitStore, admitted, gate, sensitiveStore, sensitiveOps, stop>>

\* contract.<call>(...) rejects: RPC error, or the nonce was used meanwhile.
sendFail(c) ==
  /\ worker[c].pc = "send"
  /\ ExecutorFailed(c)
  /\ UNCHANGED <<jobCounter, http, directCalls, pendingNonce, broadcasts, crashes, status, reads, api,
                 rateLimitStore, admitted, gate, sensitiveStore, sensitiveOps, stop>>

\* tx.wait() resolves: the Executor returns its result.
waitOk(c) ==
  /\ worker[c].pc = "wait"
  /\ ExecutorSucceeded(c)
  /\ UNCHANGED <<jobCounter, http, directCalls, pendingNonce, broadcasts, crashes, status, reads, api,
                 rateLimitStore, admitted, gate, sensitiveStore, sensitiveOps, stop>>

\* tx.wait() rejects (reverted, replaced, RPC error) after the broadcast.
waitFail(c) ==
  /\ worker[c].pc = "wait"
  /\ ExecutorFailed(c)
  /\ UNCHANGED <<jobCounter, http, directCalls, pendingNonce, broadcasts, crashes, status, reads, api,
                 rateLimitStore, admitted, gate, sensitiveStore, sensitiveOps, stop>>

\* default: throw new Error(`Unknown transaction type: ${type}`), before any
\* contract call.
unknownTransactionType(c) ==
  /\ worker[c].pc = "default"
  /\ ExecutorFailed(c)
  /\ UNCHANGED <<jobCounter, http, directCalls, pendingNonce, broadcasts, crashes, status, reads, api,
                 rateLimitStore, admitted, gate, sensitiveStore, sensitiveOps, stop>>

\* ------------------------------------------------------------ Main queue
\* txQueue.process(1, processMainQueueJob): the consumer takes the head of
\* wait when its one slot is free, and the handler runs to its first await.
processMainQueueJob ==
  /\ worker["main"].pc = "idle"
  /\ stop.pc = "running"
  /\ mainWait # <<>>
  /\ LET id == Head(mainWait) IN
       /\ txQueue' = [txQueue EXCEPT ![id].state = "active", ![id].calls = @ + 1]
       /\ worker' = [worker EXCEPT !["main"] =
                       [Idle EXCEPT !.pc = FirstStep(txQueue[id].data.type),
                                    !.job = <<id>>]]
  /\ mainWait' = Tail(mainWait)
  /\ UNCHANGED <<txRetryQueue, retryWait, jobCounter, http, directCalls,
                 pendingNonce, broadcasts, crashes, metrics, status, reads, api,
                 rateLimitStore, admitted, gate, sensitiveStore, sensitiveOps, stop,
                 reports, timedOut>>

\* (the rest of the destructuring handed over instead: the type is lost)
HandOffRest(id) == [txQueue[id].data EXCEPT !.type = ""]

\* The payload processMainQueueJob hands to moveToRetryQueue: job.data, the
\* full payload with its type, not the rest `data` of the destructuring.
HandOffData(id) == txQueue[id].data

\* (the entry added without its delay option)
RetryEntryNoDelay(jobData, originalJobId) ==
  [state |-> "delayed", data |-> jobData, attemptsMade |-> 0,
   stalledCounter |-> 0, calls |-> 0, delay |-> 0,
   delayLeft |-> 0, age |-> 0, waits |-> <<0>>,
   origin |-> originalJobId, returnvalue |-> <<>>]

\* The entry moveToRetryQueue adds: the job's data under the jobId
\* retry-<originalJobId>, delayed by 5000 ms, options from the queue defaults.
RetryEntry(jobData, originalJobId) ==
  [state |-> "delayed", data |-> jobData, attemptsMade |-> 0,
   stalledCounter |-> 0, calls |-> 0, delay |-> RetryInitialDelay,
   delayLeft |-> RetryInitialDelay, age |-> 0, waits |-> <<RetryInitialDelay>>,
   origin |-> originalJobId, returnvalue |-> <<>>]

\* (a hand-off that keeps the handler until the Retry entry has ended)
moveToRetryQueueAndWait ==
  /\ worker["main"].pc = "moveToRetry"
  /\ LET id == worker["main"].job[1]
         rid == RetryId(id) IN
       IF rid \in DOMAIN txRetryQueue
       THEN /\ txRetryQueue[rid].state \in {"completed", "failed"}
            /\ worker' = [worker EXCEPT !["main"].pc = "return"]
            /\ UNCHANGED txRetryQueue
       ELSE /\ txRetryQueue' = (rid :> RetryEntry(HandOffData(id), id)) @@ txRetryQueue
            /\ UNCHANGED worker
  /\ UNCHANGED <<txQueue, mainWait, retryWait, jobCounter, http, directCalls,
                 pendingNonce, broadcasts, crashes, metrics, status, reads, api,
                 rateLimitStore, admitted, gate, sensitiveStore, sensitiveOps, stop,
                 reports, timedOut>>

\* moveToRetryQueue(type, job.data, job.id, error.message): txRetryQueue.add
\* takes effect; an id that is already in the queue adds nothing.
moveToRetryQueue ==
  /\ worker["main"].pc = "moveToRetry"
  /\ ~stop.closed["retry"]
  /\ LET id == worker["main"].job[1]
         rid == RetryId(id) IN
       txRetryQueue' = IF rid \in DOMAIN txRetryQueue THEN txRetryQueue
                       ELSE (rid :> RetryEntry(HandOffData(id), id)) @@ txRetryQueue
  /\ worker' = [worker EXCEPT !["main"].pc = "return"]
  /\ UNCHANGED <<txQueue, mainWait, retryWait, jobCounter, http, directCalls,
                 pendingNonce, broadcasts, crashes, metrics, status, reads, api,
                 rateLimitStore, admitted, gate, sensitiveStore, sensitiveOps, stop,
                 reports, timedOut>>

\* What Bull does with a Main entry whose handler threw: one more attempt
\* made; back to wait while attempts remain (there is no backoff), failed
\* otherwise.  With attempts = 1 the first throw fails the entry.
MainAfterThrow(e) ==
  LET made == e.attemptsMade + 1 IN
  IF made < MainAttempts
  THEN [e EXCEPT !.attemptsMade = made, !.state = "waiting"]
  ELSE [e EXCEPT !.attemptsMade = made, !.state = "failed"]

\* (a rejected add that is ignored: the handler goes on to its return)
moveToRetryQueueFailIgnored ==
  /\ worker["main"].pc = "moveToRetry"
  /\ worker' = [worker EXCEPT !["main"].pc = "return"]
  /\ UNCHANGED <<txQueue, mainWait, metrics>>
  /\ UNCHANGED <<txRetryQueue, retryWait, jobCounter, http, directCalls,
                 pendingNonce, broadcasts, crashes, status, reads, api,
                 rateLimitStore, admitted, gate, sensitiveStore, sensitiveOps, stop,
                 reports, timedOut>>

\* The add of moveToRetryQueue rejects (queue backend error): the await in
\* the catch branch throws, and so does the handler.
moveToRetryQueueFail ==
  /\ worker["main"].pc = "moveToRetry"
  /\ LET id == worker["main"].job[1] IN
       /\ txQueue' = [txQueue EXCEPT ![id] = MainAfterThrow(@)]
       /\ mainWait' = IF MainAfterThrow(txQueue[id]).state = "waiting"
                      THEN <<id>> \o mainWait ELSE mainWait
       /\ metrics' = MainFailedListener(metrics, id, txQueue[id].data.type, AddError)
  /\ worker' = [worker EXCEPT !["main"] = Idle]
  /\ UNCHANGED <<txRetryQueue, retryWait, jobCounter, http, directCalls,
                 pendingNonce, broadcasts, crashes, status, reads, api,
                 rateLimitStore, admitted, gate, sensitiveStore, sensitiveOps, stop,
                 reports, timedOut>>

\* processMainQueueJob returns { success: false, movedToRetry: true }: the
\* Main entry is completed, and 'completed' is emitted as for a success.
MainReturnMovedToRetry ==
  /\ worker["main"].pc = "return"
  /\ LET id == worker["main"].job[1] IN
       txQueue' = [txQueue EXCEPT ![id].state = "completed",
                     ![id].returnvalue = <<[success |-> FALSE, movedToRetry |-> TRUE]>>]
  /\ worker' = [worker EXCEPT !["main"] = Idle]
  /\ metrics' = MainCompletedListener(metrics)
  /\ UNCHANGED <<mainWait, txRetryQueue, retryWait, jobCounter, http, directCalls,
                 pendingNonce, broadcasts, crashes, status, reads, api,
                 rateLimitStore, admitted, gate, sensitiveStore, sensitiveOps, stop,
                 reports, timedOut>>

\* ----------------------------------------------------- the job's timeout
\* timeout: 60000.  Bull races the handler's promise against a timer; when
\* the timer wins the attempt is failed as if the handler had thrown, and the
\* consumer's slot is free again.  The handler is not cancelled: it stays at
\* its await.  (One such handler per consumer is followed.)
jobTimeout(c) ==
  /\ worker[c].pc \in {"estimateGas", "getNonce", "send", "wait", "moveToRetry"}
  /\ timedOut[c] = NoOrphan
  /\ IF c = "main"
     THEN LET id == worker[c].job[1] IN
          /\ txQueue' = [txQueue EXCEPT ![id] = MainAfterThrow(@)]
          /\ mainWait' = IF MainAfterThrow(txQueue[id]).state = "waiting"
                         THEN <<id>> \o mainWait ELSE mainWait
          /\ metrics' = MainFailedListener(metrics, id, txQueue[id].data.type,
                                           "Promise timed out")
          /\ timedOut' = [timedOut EXCEPT
                            ![c] = Orphan(worker[c], MainAfterThrow(txQueue[id]).attemptsMade)]
          /\ UNCHANGED <<txRetryQueue, reports>>
     ELSE LET rid == worker[c].job[1]
              job == AfterFailedAttempt(txRetryQueue[rid]) IN
          /\ txRetryQueue' = [txRetryQueue EXCEPT ![rid] = job]
          /\ metrics' = RetryFailedListener(metrics, rid, job.data.type,
                                            "Promise timed out")
          /\ reports' = [reports EXCEPT ![job.origin] = @ \o MonitorReport(job)]
          /\ timedOut' = [timedOut EXCEPT ![c] = Orphan(worker[c], job.attemptsMade)]
          /\ UNCHANGED <<txQueue, mainWait>>
  /\ worker' = [worker EXCEPT ![c] = Idle]
  /\ UNCHANGED <<retryWait, jobCounter, http, directCalls, pendingNonce,
                 broadcasts, crashes, status, reads, api, rateLimitStore, admitted,
                 gate, sensitiveStore, sensitiveOps, stop>>

\* The timed-out handler's estimateGas resolves.
orphanEstimateGasOk(c) ==
  /\ timedOut[c].pc = "estimateGas"
  /\ \E gasEstimate \in GasEstimates :
       timedOut' = [timedOut EXCEPT ![c].pc = "getNonce",
                                    ![c].gasEstimate = <<gasEstimate>>,
                                    ![c].gasLimit = <<GasLimit(gasEstimate)>>]
  /\ UNCHANGED <<txQueue, mainWait, txRetryQueue, retryWait, jobCounter,
                 worker, http, directCalls, pendingNonce, broadcasts, crashes,
                 metrics, status, reads, api, rateLimitStore, admitted, gate,
                 sensitiveStore, sensitiveOps, stop, reports>>

\* The timed-out handler's signer reads the pending nonce.
orphanSignerGetNonce(c) ==
  /\ timedOut[c].pc = "getNonce"
  /\ LET job == IF c = "main" THEN txQueue[timedOut[c].job[1]]
                ELSE txRetryQueue[timedOut[c].job[1]] IN
       timedOut' = [timedOut EXCEPT
                      ![c].pc = "send",
                      ![c].nonce = pendingNonce,
                      ![c].submitted = Append(@, ContractMethod(job.data.type))]
  /\ UNCHANGED <<txQueue, mainWait, txRetryQueue, retryWait, jobCounter,
                 worker, http, directCalls, pendingNonce, broadcasts, crashes,
                 metrics, status, reads, api, rateLimitStore, admitted, gate,
                 sensitiveStore, sensitiveOps, stop, reports>>

\* The timed-out handler's contract call resolves: its transaction is
\* broadcast.
orphanSendOk(c) ==
  /\ timedOut[c].pc = "send"
  /\ timedOut[c].nonce = pendingNonce
  /\ pendingNonce' = pendingNonce + 1
  /\ LET origin == IF c = "main" THEN timedOut[c].job[1]
                   ELSE txRetryQueue[timedOut[c].job[1]].origin IN
       broadcasts' = [broadcasts EXCEPT ![origin] = @ + 1]
  /\ timedOut' = [timedOut EXCEPT
                    ![c].pc = "wait",
                    ![c].tx = <<[hash |-> TxHash(timedOut[c].nonce)]>>,
                    ![c].gasEstimate = <<>>,
                    ![c].gasLimit = <<>>]
  /\ UNCHANGED <<txQueue, mainWait, txRetryQueue, retryWait, jobCounter,
                 worker, http, directCalls, crashes, metrics, status, reads, api,
                 rateLimitStore, admitted, gate, sensitiveStore, sensitiveOps,
                 stop, reports>>

\* The timed-out handler's tx.wait() resolves: the handler returns its
\* result, which Bull no longer looks at.
orphanWaitOk(c) ==
  /\ timedOut[c].pc = "wait"
  /\ timedOut' = [timedOut EXCEPT ![c] = NoOrphan]
  /\ UNCHANGED <<txQueue, mainWait, txRetryQueue, retryWait, jobCounter,
                 worker, http, directCalls, pendingNonce, broadcasts, crashes,
                 metrics, status, reads, api, rateLimitStore, admitted, gate,
                 sensitiveStore, sensitiveOps, stop, reports>>

\* The timed-out handler's Executor call rejects (estimateGas, the contract
\* call or tx.wait()).  processMainQueueJob's catch branch calls
\* moveToRetryQueue; processRetryQueueJob's logs when its test says final
\* and throws, which Bull no longer looks at.
orphanExecutorFailed(c) ==
  /\ timedOut[c].pc \in {"estimateGas", "send", "wait"}
  /\ IF c = "main"
     THEN /\ timedOut' = [timedOut EXCEPT ![c].pc = "moveToRetry"]
          /\ UNCHANGED reports
     ELSE /\ timedOut' = [timedOut EXCEPT ![c] = NoOrphan]
          /\ reports' = [reports EXCEPT
                            ![txRetryQueue[timedOut[c].job[1]].origin] =
                              @ \o WorkerReport(timedOut[c])]
  /\ UNCHANGED <<txQueue, mainWait, txRetryQueue, retryWait, jobCounter,
                 worker, http, directCalls, pendingNonce, broadcasts, crashes,
                 metrics, status, reads, api, rateLimitStore, admitted, gate,
                 sensitiveStore, sensitiveOps, stop>>

\* The timed-out Main handler's moveToRetryQueue: txRetryQueue.add takes
\* effect (an id already in the queue adds nothing); the handler's return
\* value is dropped.
orphanMoveToRetryQueue ==
  /\ timedOut["main"].pc = "moveToRetry"
  /\ ~stop.closed["retry"]
  /\ LET id == timedOut["main"].job[1]
         rid == RetryId(id) IN
       txRetryQueue' = IF rid \in DOMAIN txRetryQueue THEN txRetryQueue
                       ELSE (rid :> RetryEntry(HandOffData(id), id)) @@ txRetryQueue
  /\ timedOut' = [timedOut EXCEPT !["main"] = NoOrphan]
  /\ UNCHANGED <<txQueue, mainWait, retryWait, jobCounter, worker, http,
                 directCalls, pendingNonce, broadcasts, crashes, metrics,
                 status, reads, api, rateLimitStore, admitted, gate, sensitiveStore,
                 sensitiveOps, stop, reports>>

\* The add rejects: the timed-out handler throws, to nobody.
orphanMoveToRetryQueueFail ==
  /\ timedOut["main"].pc = "moveToRetry"
  /\ timedOut' = [timedOut EXCEPT !["main"] = NoOrphan]
  /\ UNCHANGED <<txQueue, mainWait, txRetryQueue, retryWait, jobCounter,
                 worker, http, directCalls, pendingNonce, broadcasts, crashes,
                 metrics, status, reads, api, rateLimitStore, admitted, gate,
                 sensitiveStore, sensitiveOps, stop, reports>>

\* ----------------------------------------------------------- Retry queue
\* (a delayed entry promoted whether or not its delay has passed)
PromoteAnyDelayed(rid) ==
  /\ txRetryQueue[rid].state = "delayed"
  /\ txRetryQueue' = [txRetryQueue EXCEPT ![rid].state = "waiting"]
  /\ retryWait' = Append(retryWait, rid)
  /\ UNCHANGED <<txQueue, mainWait, jobCounter, worker, http, directCalls,
                 pendingNonce, broadcasts, crashes, metrics, status, reads, api,
                 rateLimitStore, admitted, gate, sensitiveStore, sensitiveOps, stop,
                 reports, timedOut>>

\* A delayed entry whose delay has passed is moved to the wait list.
PromoteDelayed(rid) ==
  /\ txRetryQueue[rid].state = "delayed"
  /\ txRetryQueue[rid].delayLeft = 0
  /\ txRetryQueue' = [txRetryQueue EXCEPT ![rid].state = "waiting"]
  /\ retryWait' = Append(retryWait, rid)
  /\ UNCHANGED <<txQueue, mainWait, jobCounter, worker, http, directCalls,
                 pendingNonce, broadcasts, crashes, metrics, status, reads, api,
                 rateLimitStore, admitted, gate, sensitiveStore, sensitiveOps, stop,
                 reports, timedOut>>

\* txRetryQueue.process(1, processRetryQueueJob).
processRetryQueueJob ==
  /\ worker["retry"].pc = "idle"
  /\ stop.pc = "running"
  /\ retryWait # <<>>
  /\ LET rid == Head(retryWait) IN
       /\ txRetryQueue' = [txRetryQueue EXCEPT ![rid].state = "active",
                             ![rid].calls = @ + 1]
       /\ worker' = [worker EXCEPT !["retry"] =
                       [Idle EXCEPT !.pc = FirstStep(txRetryQueue[rid].data.type),
                                    !.job = <<rid>>]]
  /\ retryWait' = Tail(retryWait)
  /\ UNCHANGED <<txQueue, mainWait, jobCounter, http, directCalls,
                 pendingNonce, broadcasts, crashes, metrics, status, reads, api,
                 rateLimitStore, admitted, gate, sensitiveStore, sensitiveOps, stop,
                 reports, timedOut>>

\* TickMs pass: delays run down and ages grow.  The age of an entry is the
\* time from its creation to its end, counted up to the cap.
Elapse(e) ==
  IF e.state \in {"completed", "failed"} THEN e
  ELSE [e EXCEPT !.delayLeft = Max(0, @ - TickMs),
                 !.age = Min(MaxAgeTicks * TickMs, @ + TickMs)]

Tick ==
  /\ \E rid \in DOMAIN txRetryQueue : Elapse(txRetryQueue[rid]) # txRetryQueue[rid]
  /\ txRetryQueue' = [rid \in DOMAIN txRetryQueue |-> Elapse(txRetryQueue[rid])]
  /\ UNCHANGED <<txQueue, mainWait, retryWait, jobCounter, worker, http,
                 directCalls, pendingNonce, broadcasts, crashes, metrics, status, reads, api,
                 rateLimitStore, admitted, gate, sensitiveStore, sensitiveOps, stop,
                 reports, timedOut>>

\* ------------------------------------------------ HTTP handler, direct call
\* POST /create-raffle (raffle.controller createRaffle) with a valid body:
\* the handler itself asks the signer for the pending nonce ...
createRaffle ==
  /\ http.pc = "idle"
  /\ directCalls < MaxDirect
  /\ directCalls' = directCalls + 1
  /\ http' = [Idle EXCEPT !.pc = "getNonce"]
  /\ UNCHANGED <<txQueue, mainWait, txRetryQueue, retryWait, jobCounter, worker,
                 pendingNonce, broadcasts, crashes, metrics, status, reads, api,
                 rateLimitStore, admitted, gate, sensitiveStore, sensitiveOps, stop,
                 reports, timedOut>>

\* ... const nonce = await signer.getNonce('pending') ...
createRaffleGetNonce ==
  /\ http.pc = "getNonce"
  /\ http' = [http EXCEPT !.pc = "send", !.nonce = pendingNonce]
  /\ UNCHANGED <<txQueue, mainWait, txRetryQueue, retryWait, jobCounter, worker,
                 directCalls, pendingNonce, broadcasts, crashes, metrics, status, reads, api,
                 rateLimitStore, admitted, gate, sensitiveStore, sensitiveOps, stop,
                 reports, timedOut>>

\* ... and submits contract.createRaffle(..., { nonce }); it answers 200 with
\* the hash without waiting for the confirmation,
createRaffleSendOk ==
  /\ http.pc = "send"
  /\ http.nonce = pendingNonce
  /\ pendingNonce' = pendingNonce + 1
  /\ http' = Idle
  /\ UNCHANGED <<txQueue, mainWait, txRetryQueue, retryWait, jobCounter, worker,
                 directCalls, broadcasts, crashes, metrics, status, reads, api,
                 rateLimitStore, admitted, gate, sensitiveStore, sensitiveOps, stop,
                 reports, timedOut>>

\* or 500 when the call rejects.
createRaffleSendFail ==
  /\ http.pc = "send"
  /\ http' = Idle
  /\ UNCHANGED <<txQueue, mainWait, txRetryQueue, retryWait, jobCounter, worker,
                 directCalls, pendingNonce, broadcasts, crashes, metrics, status, reads, api,
                 rateLimitStore, admitted, gate, sensitiveStore, sensitiveOps, stop,
                 reports, timedOut>>

\* ---------------------------------------------- HTTP handlers that enqueue
\* Values of a request field.  "#missing" is an absent field, "#number" a
\* value that is neither a string nor falsy; the others are strings.
Addresses == {"#missing", "0xzz", "0xabc", "0xABC"}
Reasons == {"#missing", "", "  ", "spam", " spam ", "#number"}

\* ethers.isAddress: a hex address, checksummed or all lower case.
isAddress(a) == a \in {"0xabc", "0xABC"}

\* ethers.getAddress: the checksummed form.
getAddress(a) == IF a = "0xabc" THEN "0xABC" ELSE a

\* !value of JavaScript, for the values above.
Falsy(v) == v \in {"#missing", ""}

\* String.prototype.trim.
trim(r) == IF r = "  " THEN "" ELSE IF r = " spam " THEN "spam" ELSE r

\* What the part of a handler before its await comes to: an answer (code,
\* error), or a job to enqueue (code 0).  A TypeError thrown inside the try
\* block is answered by the catch block with 500.
Answer(code, error) == [code |-> code, error |-> error, job |-> <<>>]
EnqueueJob(jobData) == [code |-> 0, error |-> "", job |-> <<jobData>>]

\* addToBlocklist before its await.  reason.trim() of a value that is not a
\* string throws.
addToBlocklist(body) ==
  IF Falsy(body.address) \/ ~isAddress(body.address)
  THEN Answer(400, "Invalid address")
  ELSE IF Falsy(body.reason) THEN Answer(400, "Reason required")
  ELSE IF body.reason = "#number" THEN Answer(500, "Blocklist update failed")
  ELSE IF trim(body.reason) = "" THEN Answer(400, "Reason required")
  ELSE EnqueueJob([type |-> "add-to-blocklist", address |-> getAddress(body.address),
                   reason |-> trim(body.reason)])

\* removeFromBlocklist before its await.
removeFromBlocklist(body) ==
  IF Falsy(body.address) \/ ~isAddress(body.address)
  THEN Answer(400, "Invalid address")
  ELSE EnqueueJob([type |-> "remove-from-blocklist",
                   address |-> getAddress(body.address)])

\* An entry of a batch: an object with address and reason, or null.
NullEntry == [address |-> "#null", reason |-> "#null"]

\* One round of the loop of addToBlocklistBatch: the answer the entry leads
\* to, or <<>> when it passes.  entry.address of null throws, and so does
\* trim of a reason that is not a string.
BatchEntry(entry) ==
  IF entry = NullEntry THEN <<Answer(500, "Blocklist batch failed")>>
  ELSE IF Falsy(entry.address) \/ ~isAddress(entry.address)
  THEN <<Answer(400, "Invalid address")>>
  ELSE IF Falsy(entry.reason) THEN <<Answer(400, "Reason required")>>
  ELSE IF entry.reason = "#number" THEN <<Answer(500, "Blocklist batch failed")>>
  ELSE IF trim(entry.reason) = "" THEN <<Answer(400, "Reason required")>>
  ELSE <<>>

\* The loop: it returns at the first entry that leads to an answer.
BatchLoop(items) ==
  LET stops == {k \in 1..Len(items) : BatchEntry(items[k]) # <<>>} IN
  IF stops = {} THEN <<>>
  ELSE BatchEntry(items[CHOOSE k \in stops : \A l \in stops : k <= l])

\* addToBlocklistBatch before its await.  entries is an array (its items) or
\* not one.
addToBlocklistBatch(body) ==
  IF body.entries.kind # "array" \/ Len(body.entries.items) = 0
  THEN Answer(400, "Invalid payload")
  ELSE IF Len(body.entries.items) > MaxBatch THEN Answer(400, "Batch too large")
  ELSE IF BatchLoop(body.entries.items) # <<>>
  THEN BatchLoop(body.entries.items)[1]
  ELSE EnqueueJob([type |-> "add-to-blocklist-batch",
                   addresses |-> [k \in 1..Len(body.entries.items) |->
                                    getAddress(body.entries.items[k].address)],
                   reasons |-> [k \in 1..Len(body.entries.items) |->
                                  trim(body.entries.items[k].reason)]])

\* archiveRaffles before its await: raffleIds is missing, an array (its
\* items, of any kind) or something else.
archiveRaffles(body) ==
  IF body.raffleIds.kind # "array" \/ Len(body.raffleIds.items) = 0
  THEN Answer(400, "Invalid request")
  ELSE EnqueueJob([type |-> "archive-raffles", raffleIds |-> body.raffleIds.items])

\* withdrawFees before its await: no field is read.
withdrawFees(body) == EnqueueJob([type |-> "withdraw-fees"])

Endpoints == {"blocklist/add", "blocklist/add-batch", "blocklist/remove",
              "archive-raffles", "withdraw-fees"}

Controller(endpoint, body) ==
  CASE endpoint = "blocklist/add" -> addToBlocklist(body)
    [] endpoint = "blocklist/add-batch" -> addToBlocklistBatch(body)
    [] endpoint = "blocklist/remove" -> removeFromBlocklist(body)
    [] endpoint = "archive-raffles" -> archiveRaffles(body)
    [] endpoint = "withdraw-fees" -> withdrawFees(body)

\* The request bodies tried on each endpoint.
GoodEntry == [address |-> "0xabc", reason |-> " spam "]
Batches ==
  { [kind |-> "missing", items |-> <<>>], [kind |-> "object", items |-> <<>>],
    [kind |-> "array", items |-> <<>>],
    [kind |-> "array", items |-> <<GoodEntry>>],
    [kind |-> "array", items |-> <<GoodEntry, NullEntry>>],
    [kind |-> "array", items |-> <<GoodEntry, [address |-> "0xzz", reason |-> "spam"]>>],
    [kind |-> "array", items |-> <<[address |-> "#missing", reason |-> "spam"]>>],
    [kind |-> "array", items |-> <<GoodEntry, [address |-> "0xABC", reason |-> "  "]>>],
    [kind |-> "array", items |-> <<[address |-> "0xABC", reason |-> "#missing"]>>],
    [kind |-> "array", items |-> <<[address |-> "0xABC", reason |-> "#number"]>>],
    [kind |-> "array", items |-> [k \in 1..MaxBatch |-> GoodEntry]],
    [kind |-> "array", items |-> [k \in 1..(MaxBatch + 1) |-> GoodEntry]] }
RaffleIdLists ==
  { [kind |-> "missing", items |-> <<>>], [kind |-> "string", items |-> <<>>],
    [kind |-> "array", items |-> <<>>], [kind |-> "array", items |-> <<7>>],
    [kind |-> "array", items |-> <<7, 8>>] }

Bodies(endpoint) ==
  CASE endpoint = "blocklist/add" -> [address : Addresses, reason : Reasons]
    [] endpoint = "blocklist/remove" -> [address : Addresses]
    [] endpoint = "blocklist/add-batch" -> [entries : Batches]
    [] endpoint = "archive-raffles" -> [raffleIds : RaffleIdLists]
    [] endpoint = "withdraw-fees" -> {[none |-> ""]}

\* A request reaches a controller, which runs up to its await of
\* enqueueTransaction or to its answer.
apiRequest(endpoint, body) ==
  /\ api.pc = "idle"
  /\ LET r == Controller(endpoint, body) IN
       api' = IF r.code = 0
              THEN [pc |-> "enqueue", endpoint |-> endpoint, body |-> <<body>>,
                    job |-> r.job, response |-> <<>>]
              ELSE [pc |-> "idle", endpoint |-> endpoint, body |-> <<body>>,
                    job |-> <<>>,
                    response |-> <<[code |-> r.code, success |-> FALSE, jobId |-> 0]>>]
  /\ UNCHANGED <<txQueue, mainWait, txRetryQueue, retryWait, jobCounter, worker,
                 http, directCalls, pendingNonce, broadcasts, crashes, metrics, status, reads,
                 rateLimitStore, admitted, gate, sensitiveStore, sensitiveOps, stop,
                 reports, timedOut>>

\* (a controller that answers once the job it admitted has been completed)
apiEnqueuedAfterCompletion ==
  /\ api.pc = "enqueue"
  /\ IF api.response = <<>>
     THEN /\ enqueueTransaction(api.job[1])
          /\ api' = [api EXCEPT !.response = <<[code |-> 0, success |-> TRUE,
                                                jobId |-> jobCounter + 1]>>]
     ELSE /\ txQueue[api.response[1].jobId].state = "completed"
          /\ api' = [api EXCEPT !.pc = "idle",
                       !.response = <<[code |-> 200, success |-> TRUE,
                                       jobId |-> api.response[1].jobId]>>]
          /\ UNCHANGED <<txQueue, mainWait, txRetryQueue, retryWait, jobCounter,
                         worker, http, directCalls, pendingNonce, broadcasts,
                         crashes, metrics, status, reads, rateLimitStore, admitted, gate,
                         sensitiveStore, sensitiveOps, stop, reports, timedOut>>

\* await enqueueTransaction(...) resolves: res.json({ success: true, jobId }).
apiEnqueued ==
  /\ api.pc = "enqueue"
  /\ enqueueTransaction(api.job[1])
  /\ api' = [api EXCEPT !.pc = "idle",
               !.response = <<[code |-> 200, success |-> TRUE, jobId |-> jobCounter + 1]>>]

\* await enqueueTransaction(...) rejects: the catch block answers 500.
apiEnqueueFail ==
  /\ api.pc = "enqueue"
  /\ api' = [api EXCEPT !.pc = "idle",
               !.response = <<[code |-> 500, success |-> FALSE, jobId |-> 0]>>]
  /\ UNCHANGED <<txQueue, mainWait, txRetryQueue, retryWait, jobCounter, worker,
                 http, directCalls, pendingNonce, broadcasts, crashes, metrics, status, reads,
                 rateLimitStore, admitted, gate, sensitiveStore, sensitiveOps, stop,
                 reports, timedOut>>

\* ------------------------------------------------- restart, stalled jobs
\* The process dies and is started again: every handler is gone and so are
\* the Monitor's in-process counters; the entries the handlers held stay
\* active in the queue backend until the stalled-jobs check.
Crash ==
  /\ crashes < MaxCrashes
  /\ \/ \E c \in Consumers : worker[c].pc # "idle"
     \/ http.pc # "idle"
  /\ crashes' = crashes + 1
  /\ worker' = [c \in Consumers |-> Idle]
  /\ http' = Idle
  /\ metrics' = NoMetrics
  /\ status' = NoStatus
  /\ api' = NoRequest
  /\ rateLimitStore' = [ip \in ClientIPs |-> <<>>]
  /\ gate' = NoGate
  /\ sensitiveStore' = [ip \in ClientIPs |-> <<>>]
  /\ UNCHANGED <<txQueue, mainWait, txRetryQueue, retryWait, jobCounter,
                 directCalls, pendingNonce, broadcasts, admitted, sensitiveOps,
                 reports>>
  /\ stop' = NoStop
  /\ timedOut' = [c \in Consumers |-> NoOrphan]
  /\ reads' = NoReads

\* An active entry that no handler holds has lost its lock.
MainStalled(id) == txQueue[id].state = "active" /\ worker["main"].job # <<id>>
RetryStalled(rid) ==
  txRetryQueue[rid].state = "active" /\ worker["retry"].job # <<rid>>

\* The stalled-jobs check of the Main queue (maxStalledCount 3): 'failed' is
\* emitted for an entry over the limit, 'stalled' for a recovered one.
MainStalledCheck(id) ==
  /\ MainStalled(id)
  /\ IF txQueue[id].stalledCounter + 1 > MainMaxStalledCount
     THEN /\ txQueue' = [txQueue EXCEPT ![id].state = "failed",
                           ![id].stalledCounter = @ + 1]
          /\ mainWait' = mainWait
          /\ metrics' = MainFailedListener(metrics, id, txQueue[id].data.type,
                                           StalledError)
     ELSE /\ txQueue' = [txQueue EXCEPT ![id].state = "waiting",
                           ![id].stalledCounter = @ + 1]
          /\ mainWait' = <<id>> \o mainWait
          /\ metrics' = MainStalledListener(metrics)
  /\ UNCHANGED <<txRetryQueue, retryWait, jobCounter, worker, http, directCalls,
                 pendingNonce, broadcasts, crashes, status, reads, api,
                 rateLimitStore, admitted, gate, sensitiveStore, sensitiveOps, stop,
                 reports, timedOut>>

\* The stalled-jobs check of the Retry queue (maxStalledCount 2).
RetryStalledCheck(rid) ==
  /\ RetryStalled(rid)
  /\ IF txRetryQueue[rid].stalledCounter + 1 > RetryMaxStalledCount
     THEN /\ txRetryQueue' = [txRetryQueue EXCEPT ![rid].state = "failed",
                                ![rid].stalledCounter = @ + 1]
          /\ retryWait' = retryWait
          /\ metrics' = RetryFailedListener(metrics, rid, txRetryQueue[rid].data.type,
                                            StalledError)
          /\ reports' = [reports EXCEPT ![txRetryQueue[rid].origin] =
                            @ \o MonitorReport(txRetryQueue[rid])]
     ELSE /\ txRetryQueue' = [txRetryQueue EXCEPT ![rid].state = "waiting",
                                ![rid].stalledCounter = @ + 1]
          /\ retryWait' = <<rid>> \o retryWait
          /\ metrics' = RetryStalledListener(metrics)
          /\ reports' = reports
  /\ UNCHANGED <<txQueue, mainWait, jobCounter, worker, http, directCalls,
                 pendingNonce, broadcasts, crashes, status, reads, api,
                 rateLimitStore, admitted, gate, sensitiveStore, sensitiveOps, stop,
                 timedOut>>

\* ------------------------------------------------- stopTransactionWorker
\* stopTransactionWorker up to its await: close() is called on both queues.
\* From then on a queue's consumer takes no further entry.
stopTransactionWorker ==
  /\ stop.pc = "running"
  /\ stop' = [stop EXCEPT !.pc = "closing",
                          !.held = <<[c \in Consumers |-> worker[c].job]>>]
  /\ UNCHANGED <<txQueue, mainWait, txRetryQueue, retryWait, jobCounter, worker,
                 http, directCalls, pendingNonce, broadcasts, crashes, metrics,
                 status, reads, api, rateLimitStore, admitted, gate, sensitiveStore,
                 sensitiveOps, reports, timedOut>>

\* (a close that does not wait for the job being processed: close(true))
queueClosedNoWait(c) ==
  /\ stop.pc = "closing"
  /\ ~stop.closed[c]
  /\ stop' = [stop EXCEPT !.closed[c] = TRUE]
  /\ UNCHANGED <<txQueue, mainWait, txRetryQueue, retryWait, jobCounter, worker,
                 http, directCalls, pendingNonce, broadcasts, crashes, metrics,
                 status, reads, api, rateLimitStore, admitted, gate, sensitiveStore,
                 sensitiveOps, reports, timedOut>>

\* close() of a queue resolves: Bull waits for the job its consumer is
\* processing, then disconnects the queue's clients.
queueClosed(c) ==
  /\ stop.pc = "closing"
  /\ ~stop.closed[c]
  /\ worker[c].pc = "idle"
  /\ stop' = [stop EXCEPT !.closed[c] = TRUE]
  /\ UNCHANGED <<txQueue, mainWait, txRetryQueue, retryWait, jobCounter, worker,
                 http, directCalls, pendingNonce, broadcasts, crashes, metrics,
                 status, reads, api, rateLimitStore, admitted, gate, sensitiveStore,
                 sensitiveOps, reports, timedOut>>

\* Promise.all resolves: stopTransactionWorker completes.
workerStopped ==
  /\ stop.pc = "closing"
  /\ \A c \in Consumers : stop.closed[c]
  /\ stop' = [stop EXCEPT !.pc = "stopped"]
  /\ UNCHANGED <<txQueue, mainWait, txRetryQueue, retryWait, jobCounter, worker,
                 http, directCalls, pendingNonce, broadcasts, crashes, metrics,
                 status, reads, api, rateLimitStore, admitted, gate, sensitiveStore,
                 sensitiveOps, reports, timedOut>>

\* ------------------------------- authentication, whitelist, rate limiting
\* authenticateRequest: !apiKey || apiKey !== RELAYER_API_KEY answers 401.
authenticateRequest(apiKey) == apiKey # "#missing" /\ apiKey = RELAYER_API_KEY

\* checkIPWhitelist: no whitelist allows every client.
checkIPWhitelist(ip) == ALLOWED_IPS = {} \/ ip \in ALLOWED_IPS

\* checkRateLimit(ip): the store after the call, and whether the request is
\* within the limit.  A missing or expired entry starts a window with this
\* request counted; a full window refuses; otherwise the request is counted.
checkRateLimit(store, ip) ==
  LET entry == store[ip] IN
  IF entry = <<>> \/ entry[1].resetIn < 0
  THEN [ok |-> TRUE,
        store |-> [store EXCEPT ![ip] = <<[count |-> 1, resetIn |-> WindowMs]>>]]
  ELSE IF entry[1].count >= requestsPerMinute
  THEN [ok |-> FALSE, store |-> store]
  ELSE [ok |-> TRUE,
        store |-> [store EXCEPT ![ip] = <<[entry[1] EXCEPT !.count = @ + 1]>>]]

\* The handler a path is routed to: healthCheck answers success true, status
\* 'healthy'; any other route stands for its controller.
healthCheck == [success |-> TRUE, status |-> "healthy"]
RouteOf(path) == IF path = "/health" THEN "healthCheck" ELSE "controller"

\* The answer of a middleware that ends the request.
Refuse(path, apiKey, code) ==
  [path |-> path, apiKey |-> apiKey, code |-> code, handler |-> "", body |-> <<>>]

\* app.use(healthRoutes), ..., app.use(monitoringRoutes): the routers in the
\* order they are mounted, all at the root.
Routers == <<"healthRoutes", "raffleRoutes", "systemRoutes", "adminRoutes",
             "complianceRoutes", "monitoringRoutes">>

\* The routers that start with router.use(checkAdminIP) and
\* router.use(sensitiveLimiter).
ProtectedRouters == {"systemRoutes", "adminRoutes"}

\* The router that has the route of a path.
RouterOf(path) ==
  CASE path = "/health" -> "healthRoutes"
    [] path \in {"/pause-system", "/unpause-system"} -> "systemRoutes"
    [] path = "/withdraw-fees" -> "adminRoutes"

\* The protected routers a request enters before it is answered: a router
\* mounted at the root runs its router.use middleware for every request that
\* gets to it, also for one whose route is in a router mounted after it.
Entered(path) ==
  LET last == CHOOSE k \in 1..Len(Routers) : Routers[k] = RouterOf(path) IN
  SelectSeq(SubSeq(Routers, 1, last), LAMBDA r : r \in ProtectedRouters)

\* checkAdminIP, outside development mode: the client is one of ADMIN_IPS.
checkAdminIP(ip) == ip \in ADMIN_IPS

\* sensitiveLimiter, the one rateLimit({ windowMs, max }) instance both
\* routers use: express-rate-limit counts the request under its key, the
\* client's IP, in a window that starts with the first hit and lasts windowMs,
\* and refuses it when the hits exceed max.  Hits beyond max + 1 behave alike.
sensitiveLimiter(store, ip) ==
  LET entry == store[ip]
      hit == IF entry = <<>> \/ entry[1].resetIn <= 0
             THEN [totalHits |-> 1, resetIn |-> SensitiveWindowMs]
             ELSE [entry[1] EXCEPT !.totalHits = Min(SensitiveMax + 1, @ + 1)]
  IN [ok |-> hit.totalHits <= SensitiveMax, store |-> [store EXCEPT ![ip] = <<hit>>]]

\* The request passes sensitiveLimiter once in each of the n protected routers
\* it enters, until one refuses it.
RECURSIVE PassLimiters(_, _, _)
PassLimiters(store, ip, n) ==
  IF n = 0 THEN [ok |-> TRUE, store |-> store]
  ELSE LET r == sensitiveLimiter(store, ip) IN
       IF r.ok THEN PassLimiters(r.store, ip, n - 1) ELSE r

\* The answer of checkAdminIP or of sensitiveLimiter's handler.
RefusedBy(path, apiKey, code, middleware) ==
  [path |-> path, apiKey |-> apiKey, code |-> code, handler |-> middleware,
   body |-> <<>>]

\* The routers: the protected ones the request enters check the admin IP and
\* count the request; then the route's handler runs.
routes(ip, path, apiKey) ==
  IF Entered(path) # <<>> /\ ~checkAdminIP(ip)
  THEN /\ gate' = RefusedBy(path, apiKey, 403, "checkAdminIP")
       /\ UNCHANGED <<sensitiveStore, sensitiveOps>>
  ELSE LET r == PassLimiters(sensitiveStore, ip, Len(Entered(path))) IN
       /\ sensitiveStore' = r.store
       /\ IF r.ok
          THEN /\ gate' = [path |-> path, apiKey |-> apiKey, code |-> 200,
                           handler |-> RouteOf(path),
                           body |-> IF path = "/health" THEN <<healthCheck>>
                                    ELSE <<>>]
               /\ sensitiveOps' =
                    IF Entered(path) = <<>> THEN sensitiveOps
                    ELSE [sensitiveOps EXCEPT
                            ![ip] = Append(@, [path |-> path, age |-> 0])]
          ELSE /\ gate' = RefusedBy(path, apiKey, 429, "sensitiveLimiter")
               /\ UNCHANGED sensitiveOps

\* A request passes app.use(authenticateRequest), app.use(checkIPWhitelist),
\* app.use(rateLimitMiddleware) in that order, and then the routes.
request(ip, path, apiKey) ==
  /\ IF ~authenticateRequest(apiKey)
     THEN /\ gate' = Refuse(path, apiKey, 401)
          /\ UNCHANGED <<rateLimitStore, admitted, sensitiveStore, sensitiveOps>>
     ELSE IF ~checkIPWhitelist(ip)
     THEN /\ gate' = Refuse(path, apiKey, 403)
          /\ UNCHANGED <<rateLimitStore, admitted, sensitiveStore, sensitiveOps>>
     ELSE LET r == checkRateLimit(rateLimitStore, ip) IN
          /\ rateLimitStore' = r.store
          /\ IF r.ok
             THEN /\ admitted' = [admitted EXCEPT ![ip] = Append(@, 0)]
                  /\ routes(ip, path, apiKey)
             ELSE /\ admitted' = admitted
                  /\ gate' = Refuse(path, apiKey, 429)
                  /\ UNCHANGED <<sensitiveStore, sensitiveOps>>
  /\ UNCHANGED <<txQueue, mainWait, txRetryQueue, retryWait, jobCounter, worker,
                 http, directCalls, pendingNonce, broadcasts, crashes, metrics,
                 status, reads, api, stop, reports, timedOut>>

\* Half a window passes at the rate limiter.
AgeEntry(entry) ==
  IF entry = <<>> THEN entry
  ELSE <<[entry[1] EXCEPT !.resetIn = Max(-HalfWindow, @ - HalfWindow)]>>

AgeAdmitted(ages) ==
  LET kept == SelectSeq(ages, LAMBDA a : a + HalfWindow < WindowMs) IN
  [k \in 1..Len(kept) |-> kept[k] + HalfWindow]

\* The same half minute at sensitiveLimiter: a window that has ended stays
\* at 0, and sensitiveOps keeps the operations less than windowMs old.
AgeHits(entry) ==
  IF entry = <<>> THEN entry
  ELSE <<[entry[1] EXCEPT !.resetIn = Max(0, @ - HalfWindow)]>>

AgeOps(ops) ==
  LET kept == SelectSeq(ops, LAMBDA o : o.age + HalfWindow < SensitiveWindowMs) IN
  [k \in 1..Len(kept) |-> [kept[k] EXCEPT !.age = @ + HalfWindow]]

timePasses ==
  /\ \E ip \in ClientIPs : \/ AgeEntry(rateLimitStore[ip]) # rateLimitStore[ip]
                           \/ admitted[ip] # <<>>
                           \/ AgeHits(sensitiveStore[ip]) # sensitiveStore[ip]
                           \/ sensitiveOps[ip] # <<>>
  /\ rateLimitStore' = [ip \in ClientIPs |-> AgeEntry(rateLimitStore[ip])]
  /\ admitted' = [ip \in ClientIPs |-> AgeAdmitted(admitted[ip])]
  /\ sensitiveStore' = [ip \in ClientIPs |-> AgeHits(sensitiveStore[ip])]
  /\ sensitiveOps' = [ip \in ClientIPs |-> AgeOps(sensitiveOps[ip])]
  /\ UNCHANGED <<txQueue, mainWait, txRetryQueue, retryWait, jobCounter, worker,
                 http, directCalls, pendingNonce, broadcasts, crashes, metrics,
                 status, reads, api, gate, stop, reports, timedOut>>

\* setInterval(..., 5 * 60_000): entries whose resetAt has passed are deleted.
cleanupRateLimit ==
  /\ \E ip \in ClientIPs :
       rateLimitStore[ip] # <<>> /\ rateLimitStore[ip][1].resetIn < 0
  /\ rateLimitStore' =
       [ip \in ClientIPs |->
          IF rateLimitStore[ip] # <<>> /\ rateLimitStore[ip][1].resetIn < 0
          THEN <<>> ELSE rateLimitStore[ip]]
  /\ UNCHANGED <<txQueue, mainWait, txRetryQueue, retryWait, jobCounter, worker,
                 http, directCalls, pendingNonce, broadcasts, crashes, metrics,
                 status, reads, api, admitted, gate, sensitiveStore, sensitiveOps, stop, reports, timedOut>>

\* ---------------------------------------------------------- resetMetrics
\* (a reset that leaves the failed counter and the last failure in place)
resetMetricsPartly ==
  /\ metrics # NoMetrics
  /\ metrics' = [metrics EXCEPT !.completedJobs = 0, !.stalledJobs = 0]
  /\ UNCHANGED <<txQueue, mainWait, txRetryQueue, retryWait, jobCounter, worker,
                 http, directCalls, pendingNonce, broadcasts, crashes, status, reads, api,
                 rateLimitStore, admitted, gate, sensitiveStore, sensitiveOps, stop,
                 reports, timedOut>>

\* resetMetrics(): the three counters to 0, lastFailure deleted.
resetMetrics ==
  /\ metrics # NoMetrics
  /\ metrics' = [metrics EXCEPT !.completedJobs = 0, !.failedJobs = 0,
                                !.stalledJobs = 0, !.lastFailure = <<>>]
  /\ UNCHANGED <<txQueue, mainWait, txRetryQueue, retryWait, jobCounter, worker,
                 http, directCalls, pendingNonce, broadcasts, crashes, status, reads, api,
                 rateLimitStore, admitted, gate, sensitiveStore, sensitiveOps, stop,
                 reports, timedOut>>

\* ------------------------------------------------- GET /relayer/queue/status
\* The number of entries of a queue in one state.
CountIn(q, st) == Cardinality({i \in DOMAIN q : q[i].state = st})

\* The ten counts getQueueStatus asks the two queues for.  A queue keeps the
\* last removeOnComplete completed entries (and the Retry queue the last
\* removeOnFail failed ones); no Main entry is ever delayed.
Counts ==
  [mainWaiting |-> CountIn(txQueue, "waiting"),
   mainActive |-> CountIn(txQueue, "active"),
   mainCompleted |-> Min(MainRemoveOnComplete, CountIn(txQueue, "completed")),
   mainFailed |-> CountIn(txQueue, "failed"),
   mainDelayed |-> CountIn(txQueue, "delayed"),
   retryWaiting |-> CountIn(txRetryQueue, "waiting"),
   retryActive |-> CountIn(txRetryQueue, "active"),
   retryCompleted |-> Min(RetryRemoveOnComplete, CountIn(txRetryQueue, "completed")),
   retryFailed |-> Min(RetryRemoveOnFail, CountIn(txRetryQueue, "failed")),
   retryDelayed |-> CountIn(txRetryQueue, "delayed")]

\* totalJobs > 0 ? ((mainFailed + retryFailed) / totalJobs) * 100 : 0, kept
\* as the fraction num / den.
FailureRate(c) ==
  LET totalJobs == c.mainCompleted + c.mainFailed + c.retryCompleted + c.retryFailed IN
  IF totalJobs > 0
  THEN [num |-> (c.mainFailed + c.retryFailed) * 100, den |-> totalJobs]
  ELSE [num |-> 0, den |-> 1]

\* failureRate.toFixed(2), in hundredths of a percent.
ToFixed2(r) == (2 * 100 * r.num + r.den) \div (2 * r.den)

BacklogSize(c) == c.mainWaiting + c.mainDelayed + c.retryWaiting + c.retryDelayed

\* (the threshold met counts as exceeded)
RateExceedsOrMeets(r, limit) == r.num >= limit * r.den

\* failureRate > 10
RateExceeds(r, limit) == r.num > limit * r.den

\* (the backlog of the Main queue alone)
BacklogExceedsMainOnly(c, limit) == c.mainWaiting + c.mainDelayed > limit

\* backlogSize > 100
BacklogExceeds(c, limit) == BacklogSize(c) > limit

\* The four tests in the order of the code; each sets health when it fires,
\* so a later test overrides an earlier one.
HealthOf(c, m) ==
  LET h1 == IF RateExceeds(FailureRate(c), FailureRateLimit) THEN "warning" ELSE "healthy"
      h2 == IF BacklogExceeds(c, BacklogLimit) THEN "warning" ELSE h1
      h3 == IF m.stalledJobs > StalledLimit THEN "critical" ELSE h2
      h4 == IF c.mainActive = 0 /\ c.mainWaiting > 0 THEN "critical" ELSE h3
  IN h4

\* The warnings pushed, in the order of the code (the texts by their heads).
WarningsOf(c, m) ==
  (IF RateExceeds(FailureRate(c), FailureRateLimit) THEN <<"High failure rate">> ELSE <<>>)
  \o (IF BacklogExceeds(c, BacklogLimit) THEN <<"Large backlog">> ELSE <<>>)
  \o (IF m.stalledJobs > StalledLimit THEN <<"High stall count">> ELSE <<>>)
  \o (IF c.mainActive = 0 /\ c.mainWaiting > 0 THEN <<"Worker may be stuck">> ELSE <<>>)

\* The body of the 200 response.
QueueStatus(c, m) ==
  [code |-> 200, success |-> TRUE,
   health |-> HealthOf(c, m),
   warnings |-> WarningsOf(c, m),
   queues |-> c,
   metrics |-> [totalCompleted |-> m.completedJobs,
                totalFailed |-> m.failedJobs,
                totalStalled |-> m.stalledJobs,
                failureRate |-> ToFixed2(FailureRate(c)),
                backlogSize |-> BacklogSize(c),
                lastFailure |-> m.lastFailure]]

\* (a status read that cleans the completed entries out of the Main queue)
getQueueStatusCountsAndClean ==
  /\ status.pc = "idle"
  /\ status' = [pc |-> "reading", counts |-> <<>>, response |-> <<>>]
  /\ reads' = NoReads
  /\ txQueue' = [i \in JobIds |->
                   IF txQueue[i].state = "completed"
                   THEN [txQueue[i] EXCEPT !.state = "removed"] ELSE txQueue[i]]
  /\ UNCHANGED <<mainWait, txRetryQueue, retryWait, jobCounter, worker,
                 http, directCalls, pendingNonce, broadcasts, crashes, metrics, api,
                 rateLimitStore, admitted, gate, sensitiveStore, sensitiveOps, stop,
                 reports, timedOut>>

\* getQueueStatus up to its await: the ten counts are asked for, five of
\* each queue, each by a command of its own.
getQueueStatusCounts ==
  /\ status.pc = "idle"
  /\ status' = [pc |-> "reading", counts |-> <<>>, response |-> <<>>]
  /\ reads' = NoReads
  /\ UNCHANGED <<txQueue, mainWait, txRetryQueue, retryWait, jobCounter, worker,
                 http, directCalls, pendingNonce, broadcasts, crashes, metrics, api,
                 rateLimitStore, admitted, gate, sensitiveStore, sensitiveOps, stop,
                 reports, timedOut>>

\* The queue backend answers the next count of a queue (the commands of one
\* queue are answered in the order they were sent).  With the tenth answer
\* Promise.all resolves.
countResolved(q) ==
  /\ status.pc = "reading"
  /\ Len(reads[q]) < 5
  /\ LET now == IF q = "main"
                THEN <<Counts.mainWaiting, Counts.mainActive,
                       Counts.mainCompleted, Counts.mainFailed,
                       Counts.mainDelayed>>
                ELSE <<Counts.retryWaiting, Counts.retryActive,
                       Counts.retryCompleted, Counts.retryFailed,
                       Counts.retryDelayed>>
         r == [reads EXCEPT ![q] = Append(@, now[Len(@) + 1])]
         destructured ==
           [mainWaiting |-> r["main"][1], mainActive |-> r["main"][2],
            mainCompleted |-> r["main"][3], mainFailed |-> r["main"][4],
            mainDelayed |-> r["main"][5],
            retryWaiting |-> r["retry"][1], retryActive |-> r["retry"][2],
            retryCompleted |-> r["retry"][3], retryFailed |-> r["retry"][4],
            retryDelayed |-> r["retry"][5]] IN
       /\ reads' = r
       /\ status' = IF \A p \in Consumers : Len(r[p]) = 5
                     THEN [status EXCEPT !.pc = "counts",
                                         !.counts = <<destructured>>]
                     ELSE status
  /\ UNCHANGED <<txQueue, mainWait, txRetryQueue, retryWait, jobCounter, worker,
                 http, directCalls, pendingNonce, broadcasts, crashes, metrics, api,
                 rateLimitStore, admitted, gate, sensitiveStore, sensitiveOps, stop,
                 reports, timedOut>>

\* The counts resolve: the health is worked out and the snapshot sent.
getQueueStatus ==
  /\ status.pc = "counts"
  /\ status' = [pc |-> "idle", counts |-> status.counts,
                response |-> <<QueueStatus(status.counts[1], metrics)>>]
  /\ reads' = NoReads
  /\ UNCHANGED <<txQueue, mainWait, txRetryQueue, retryWait, jobCounter, worker,
                 http, directCalls, pendingNonce, broadcasts, crashes, metrics, api,
                 rateLimitStore, admitted, gate, sensitiveStore, sensitiveOps, stop,
                 reports, timedOut>>

\* A count rejects: 500, 'Failed to fetch queue status'.
getQueueStatusFail ==
  /\ status.pc \in {"reading", "counts"}
  /\ status' = [pc |-> "idle", counts |-> status.counts,
                response |-> <<[code |-> 500, success |-> FALSE]>>]
  /\ reads' = NoReads
  /\ UNCHANGED <<txQueue, mainWait, txRetryQueue, retryWait, jobCounter, worker,
                 http, directCalls, pendingNonce, broadcasts, crashes, metrics, api,
                 rateLimitStore, admitted, gate, sensitiveStore, sensitiveOps, stop,
                 reports, timedOut>>

\* ------------------------------------------------------------------- Next
\* The queues and the worker.
QueueStep ==
  \/ \E d \in JobData : enqueueJob(d)
  \/ processMainQueueJob
  \/ processRetryQueueJob
  \/ \E c \in Consumers : estimateGasOk(c)
  \/ \E c \in Consumers : estimateGasFail(c)
  \/ \E c \in Consumers : signerGetNonce(c)
  \/ \E c \in Consumers : sendOk(c)
  \/ \E c \in Consumers : sendFail(c)
  \/ \E c \in Consumers : waitOk(c)
  \/ \E c \in Consumers : waitFail(c)
  \/ moveToRetryQueue
  \/ moveToRetryQueueFail
  \/ MainReturnMovedToRetry
  \/ \E rid \in DOMAIN txRetryQueue : PromoteDelayed(rid)
  \/ Tick

\* The HTTP handler that calls the contract itself.
HttpStep ==
  \/ createRaffle
  \/ createRaffleGetNonce
  \/ createRaffleSendOk
  \/ createRaffleSendFail

\* Process restart and the recovery of the entries it leaves active.
RestartStep ==
  \/ Crash
  \/ \E id \in JobIds : MainStalledCheck(id)
  \/ \E rid \in DOMAIN txRetryQueue : RetryStalledCheck(rid)

\* The queue status endpoint.
MonitorStep ==
  \/ getQueueStatusCounts
  \/ \E q \in Consumers : countResolved(q)
  \/ getQueueStatus
  \/ getQueueStatusFail

\* The controllers that enqueue.
ApiStep ==
  \/ \E endpoint \in Endpoints : \E body \in Bodies(endpoint) :
       apiRequest(endpoint, body)
  \/ apiEnqueued
  \/ apiEnqueueFail

\* The security middleware every request passes first.
GateStep ==
  \/ \E ip \in ClientIPs : \E path \in Paths : \E apiKey \in ApiKeys :
       request(ip, path, apiKey)
  \/ timePasses
  \/ cleanupRateLimit

\* The worker, the direct handler and restarts.
ProcessStep == QueueStep \/ HttpStep \/ RestartStep

\* The worker over the entries the queues hold, whatever their type.
WorkerStep ==
  \/ processMainQueueJob
  \/ processRetryQueueJob
  \/ \E c \in Consumers : unknownTransactionType(c)
  \/ \E c \in Consumers : estimateGasOk(c)
  \/ \E c \in Consumers : estimateGasFail(c)
  \/ \E c \in Consumers : signerGetNonce(c)
  \/ \E c \in Consumers : sendOk(c)
  \/ \E c \in Consumers : sendFail(c)
  \/ \E c \in Consumers : waitOk(c)
  \/ \E c \in Consumers : waitFail(c)
  \/ moveToRetryQueue
  \/ moveToRetryQueueFail
  \/ MainReturnMovedToRetry
  \/ \E rid \in DOMAIN txRetryQueue : PromoteDelayed(rid)
  \/ Tick

\* The shutdown of the worker.
StopStep ==
  \/ stopTransactionWorker
  \/ \E c \in Consumers : queueClosed(c)
  \/ workerStopped

\* The job's timeout and the handler it leaves running.
TimeoutStep ==
  \/ \E c \in Consumers : jobTimeout(c)
  \/ \E c \in Consumers : orphanEstimateGasOk(c)
  \/ \E c \in Consumers : orphanSignerGetNonce(c)
  \/ \E c \in Consumers : orphanSendOk(c)
  \/ \E c \in Consumers : orphanWaitOk(c)
  \/ \E c \in Consumers : orphanExecutorFailed(c)
  \/ orphanMoveToRetryQueue
  \/ orphanMoveToRetryQueueFail

Next ==
  \/ ProcessStep \/ MonitorStep \/ ApiStep \/ GateStep \/ WorkerStep
  \/ resetMetrics \/ StopStep \/ TimeoutStep

Spec == Init /\ [][Next]_vars

\* The worker while the process stays up: every interleaving of the two
\* consumers over MaxJobs jobs.
SpecUp == Init /\ [][QueueStep]_vars

\* The Main queue and its consumer alone.
MainStep ==
  \/ \E d \in JobData : enqueueJob(d)
  \/ processMainQueueJob
  \/ estimateGasOk("main")
  \/ estimateGasFail("main")
  \/ signerGetNonce("main")
  \/ sendOk("main")
  \/ sendFail("main")
  \/ waitOk("main")
  \/ waitFail("main")
  \/ moveToRetryQueue
  \/ moveToRetryQueueFail
  \/ MainReturnMovedToRetry

\* The Main queue over MaxJobs jobs with restarts and stall recovery, the
\* Retry entries it makes left where the hand-off puts them.
SpecMain ==
  Init /\ [][MainStep \/ Crash \/ \E id \in JobIds : MainStalledCheck(id)]_vars

\* The queue backend keeps its entries across restarts: the process starts
\* with the jobs before the last one already completed by their Main attempt,
\* and the whole life of the last job is followed, restarts included.
InitLast ==
  /\ txQueue = [i \in JobIds |->
                  IF i < MaxJobs
                  THEN [NoEntry EXCEPT !.state = "completed",
                          !.data = [type |-> "withdraw-fees", raffleId |-> 0],
                          !.calls = 1,
                          !.returnvalue =
                             <<MainReturn(ExecutorResult("withdraw-fees", @, TxHash(i - 1)))>>]
                  ELSE NoEntry]
  /\ mainWait = <<>>
  /\ txRetryQueue = <<>>
  /\ retryWait = <<>>
  /\ jobCounter = MaxJobs - 1
  /\ worker = [c \in Consumers |-> Idle]
  /\ http = Idle
  /\ directCalls = 0
  /\ pendingNonce = MaxJobs - 1
  /\ broadcasts = [i \in JobIds |-> IF i < MaxJobs THEN 1 ELSE 0]
  /\ crashes = 0
  /\ metrics = NoMetrics
  /\ status = NoStatus
  /\ api = NoRequest
  /\ rateLimitStore = [ip \in ClientIPs |-> <<>>]
  /\ admitted = [ip \in ClientIPs |-> <<>>]
  /\ gate = NoGate
  /\ sensitiveStore = [ip \in ClientIPs |-> <<>>]
  /\ sensitiveOps = [ip \in ClientIPs |-> <<>>]
  /\ stop = NoStop
  /\ reports = [i \in JobIds |-> <<>>]
  /\ timedOut = [c \in Consumers |-> NoOrphan]
  /\ reads = NoReads

SpecLast == InitLast /\ [][ProcessStep]_vars

\* The health classification over the counts the queue backend may hold:
\* the request is at its await, the counts about to resolve (or reject) range
\* over values around each threshold, the stall counter likewise.
StatusCounts ==
  [mainWaiting : {0, 1, 100, 101}, mainActive : {0, 1},
   mainCompleted : {0, 27, 8999}, mainFailed : {0, 2, 1000}, mainDelayed : {0},
   retryWaiting : {0, 1}, retryActive : {0, 1}, retryCompleted : {0},
   retryFailed : {0, 1}, retryDelayed : {0, 100}]

InitStatus ==
  /\ txQueue = [i \in JobIds |-> NoEntry]
  /\ mainWait = <<>>
  /\ txRetryQueue = <<>>
  /\ retryWait = <<>>
  /\ jobCounter = 0
  /\ worker = [c \in Consumers |-> Idle]
  /\ http = Idle
  /\ directCalls = 0
  /\ pendingNonce = 0
  /\ broadcasts = [i \in JobIds |-> 0]
  /\ crashes = 0
  /\ \E n \in {0, StalledLimit, StalledLimit + 1} :
       metrics = [NoMetrics EXCEPT !.stalledJobs = n]
  /\ \E c \in StatusCounts :
       status = [pc |-> "counts", counts |-> <<c>>, response |-> <<>>]
  /\ api = NoRequest
  /\ rateLimitStore = [ip \in ClientIPs |-> <<>>]
  /\ admitted = [ip \in ClientIPs |-> <<>>]
  /\ gate = NoGate
  /\ sensitiveStore = [ip \in ClientIPs |-> <<>>]
  /\ sensitiveOps = [ip \in ClientIPs |-> <<>>]
  /\ stop = NoStop
  /\ reports = [i \in JobIds |-> <<>>]
  /\ timedOut = [c \in Consumers |-> NoOrphan]
  /\ reads = NoReads

\* The process as the entry point starts it: the HTTP server is listening,
\* startTransactionWorker is not called, so no consumer is registered on
\* either queue.  A controller that has started runs on; requests come or
\* not.  Of the routes, the ones that enqueue are followed.
HandlersRun == apiEnqueued \/ apiEnqueueFail

SpecServer == Init /\ [][ApiStep]_vars /\ WF_vars(HandlersRun)

SpecStatus == InitStatus /\ [][getQueueStatus \/ getQueueStatusFail]_vars

\* The security middleware alone, in front of the routes.
SpecGate == Init /\ [][GateStep]_vars

\* The Monitor beside the Main queue, over the life of the last job:
\* lifecycle events of the Main queue (restarts and stall recovery
\* included), status reads and resets.
SpecMonitor ==
  InitLast /\ [][\/ MainStep
             \/ Crash
             \/ \E id \in JobIds : MainStalledCheck(id)
             \/ MonitorStep
             \/ resetMetrics]_vars

\* The controllers that enqueue, with the Main consumer at work on what they
\* admit (none of their job types estimates gas).  The batch endpoint, whose
\* bodies are long, is left to SpecServer.
ApiWorkerStep ==
  \/ \E endpoint \in Endpoints \ {"blocklist/add-batch"} :
       \E body \in Bodies(endpoint) : apiRequest(endpoint, body)
  \/ apiEnqueued
  \/ apiEnqueueFail
  \/ processMainQueueJob
  \/ signerGetNonce("main")
  \/ sendOk("main")
  \/ sendFail("main")
  \/ waitOk("main")
  \/ waitFail("main")
  \/ moveToRetryQueue
  \/ moveToRetryQueueFail
  \/ MainReturnMovedToRetry

SpecApi == Init /\ [][ApiWorkerStep]_vars

\* One payload of each job type the controllers enqueue, and one of a type
\* executeTransaction has no case for.
ExecutorPayloads ==
  { [type |-> "create-raffle", referenceId |-> 1, templateId |-> 2],
    [type |-> "execute-raffle", raffleId |-> 7],
    [type |-> "cancel-raffle", raffleId |-> 7],
    [type |-> "execute-refund", raffleId |-> 12],
    [type |-> "pause-contract"],
    [type |-> "unpause-contract"],
    [type |-> "add-to-blocklist", address |-> "0xABC", reason |-> "spam"],
    [type |-> "add-to-blocklist-batch", addresses |-> <<"0xABC", "0xDEF">>,
     reasons |-> <<"spam", "fraud">>],
    [type |-> "remove-from-blocklist", address |-> "0xABC"],
    [type |-> "withdraw-fees"],
    [type |-> "archive-raffles", raffleIds |-> <<3, 4, 5>>],
    [type |-> "sweep-dust"] }

\* The Main queue holds one admitted job, of any type.
InitExecutor ==
  /\ \E jobData \in ExecutorPayloads :
       txQueue = [i \in JobIds |->
                    IF i = 1 THEN [NoEntry EXCEPT !.state = "waiting", !.data = jobData]
                    ELSE NoEntry]
  /\ mainWait = <<1>>
  /\ txRetryQueue = <<>>
  /\ retryWait = <<>>
  /\ jobCounter = 1
  /\ worker = [c \in Consumers |-> Idle]
  /\ http = Idle
  /\ directCalls = 0
  /\ pendingNonce = 0
  /\ broadcasts = [i \in JobIds |-> 0]
  /\ crashes = 0
  /\ metrics = NoMetrics
  /\ status = NoStatus
  /\ api = NoRequest
  /\ rateLimitStore = [ip \in ClientIPs |-> <<>>]
  /\ admitted = [ip \in ClientIPs |-> <<>>]
  /\ gate = NoGate
  /\ sensitiveStore = [ip \in ClientIPs |-> <<>>]
  /\ sensitiveOps = [ip \in ClientIPs |-> <<>>]
  /\ stop = NoStop
  /\ reports = [i \in JobIds |-> <<>>]
  /\ timedOut = [c \in Consumers |-> NoOrphan]
  /\ reads = NoReads

\* The worker on one job of each type, through the Main attempt and the
\* Retry attempts.
SpecExecutor == InitExecutor /\ [][WorkerStep]_vars

\* The same, with stopTransactionWorker called at any moment.
SpecStop == InitExecutor /\ [][WorkerStep \/ StopStep]_vars

\* Status requests served while the worker takes one withdraw-fees job
\* through the two queues: no entry is added to the Main queue meanwhile.
InitSnapshot == InitExecutor /\ txQueue[1].data.type = "withdraw-fees"

SpecSnapshot ==
  /\ InitSnapshot
  /\ [][\/ processMainQueueJob
        \/ processRetryQueueJob
        \/ \E c \in Consumers : signerGetNonce(c)
        \/ \E c \in Consumers : sendOk(c)
        \/ \E c \in Consumers : sendFail(c)
        \/ \E c \in Consumers : waitOk(c)
        \/ \E c \in Consumers : waitFail(c)
        \/ moveToRetryQueue
        \/ moveToRetryQueueFail
        \/ MainReturnMovedToRetry
        \/ \E rid \in DOMAIN txRetryQueue : PromoteDelayed(rid)
        \/ Tick
        \/ MonitorStep]_vars

\* The same, with the job's timeout firing at any await of a handler.
SpecTimeout == InitExecutor /\ [][WorkerStep \/ TimeoutStep]_vars

\* The same, with restarts, stall recovery and resets of the metrics: every
\* lifecycle event of both queues beside the Monitor's counters.
SpecEvents == InitExecutor /\ [][WorkerStep \/ RestartStep \/ resetMetrics]_vars

\* ================================================================= claims
RECURSIVE SumSeq(_)
SumSeq(q) == IF q = <<>> THEN 0 ELSE Head(q) + SumSeq(Tail(q))

RetryIds == DOMAIN txRetryQueue

HandedOff(id) ==
  /\ txQueue[id].state = "completed"
  /\ txQueue[id].returnvalue = <<[success |-> FALSE, movedToRetry |-> TRUE]>>

\* C1: at every moment at most one Executor call is in flight, the Main
\* consumer and the Retry consumer counted together.
C1_AtMostOneInFlight ==
  Cardinality({c \in Consumers : worker[c].pc \in ExecutorPcs}) <= 1

\* C2 (as claimed): no Main entry is ever delivered to the Executor more than
\* once, stall recovery included.
C2_ExactlyOneCall ==
  \A id \in JobIds :
    /\ txQueue[id].calls <= 1
    /\ txQueue[id].state \in {"active", "completed", "failed"} => txQueue[id].calls = 1

\* C2 (amended): the Main queue never re-attempts an entry on its own; an
\* entry is delivered to the Executor once, plus once for each time it was
\* recovered as stalled, and that is at most maxStalledCount times.
C2_OneCallPerDelivery ==
  \A id \in JobIds :
    /\ txQueue[id].calls <= 1 + txQueue[id].stalledCounter
    /\ txQueue[id].calls <= 1 + MainMaxStalledCount
    /\ txQueue[id].state \in {"active", "completed"} =>
         txQueue[id].calls = 1 + txQueue[id].stalledCounter
    /\ (txQueue[id].state = "failed" /\ txQueue[id].stalledCounter = 0) =>
         txQueue[id].calls = 1

\* C2 witness: an entry recovered as stalled has been processed a second time
\* and handed off.
C2_Witness ==
  \E id \in JobIds :
    HandedOff(id) /\ txQueue[id].stalledCounter = 1 /\ txQueue[id].calls = 2

\* C3: over a job's whole lifetime at most one transaction is broadcast for it.
C3_AtMostOneBroadcast == \A id \in JobIds : broadcasts[id] <= 1

\* C4: no HTTP request handler makes a chain call of its own; a mutating
\* request only enqueues.
C4_NoHttpChainCall == http.pc \notin {"getNonce", "send"}

\* C5: no two submissions hold the same pending nonce at once.
Submitters ==
  {[who |-> c, nonce |-> worker[c].nonce] : c \in {x \in Consumers : worker[x].pc = "send"}}
    \cup (IF http.pc = "send" THEN {[who |-> "http", nonce |-> http.nonce]} ELSE {})

C5_NoNonceCollision ==
  \A a \in Submitters : \A b \in Submitters : a.nonce = b.nonce => a = b

C7_RetryIdAndDelay ==
  \A rid \in RetryIds :
    LET e == txRetryQueue[rid] IN
    /\ rid = <<"retry", e.origin>>
    /\ e.delay = 5000
    /\ e.waits[1] = 5000
    /\ (e.attemptsMade = 0 /\ e.state = "delayed") =>
         e.delayLeft = Max(0, 5000 - e.age)
    /\ (e.attemptsMade = 0 /\ e.state \in {"waiting", "active"}) => e.age >= 5000

\* C7 witness: a hand-off has just added a Retry entry.
C7_Witness ==
  \E id \in JobIds :
    /\ worker["main"].pc = "return" /\ worker["main"].job = <<id>>
    /\ RetryId(id) \in RetryIds
    /\ txRetryQueue[RetryId(id)].delayLeft = 5000
    /\ txRetryQueue[RetryId(id)].age = 0

NonDecreasing(q) == \A i \in 1..Len(q) : \A j \in i..Len(q) : q[i] <= q[j]

\* C8: the waits before the attempts of a Retry entry are non-decreasing and
\* are 5 s, 10 s and 20 s.
C8_Waits ==
  \A rid \in RetryIds :
    LET w == txRetryQueue[rid].waits IN
    /\ NonDecreasing(w)
    /\ \A i \in 1..Len(w) : w[i] = <<5000, 10000, 20000>>[i]

\* C9: an attempt of a Retry entry is eligible, and runs, only once the
\* initial delay and every backoff scheduled so far have passed since the
\* entry was created.
C9_NoEarlyAttempt ==
  \A rid \in RetryIds :
    LET e == txRetryQueue[rid] IN
    e.state \in {"waiting", "active"} =>
      /\ Len(e.waits) = e.attemptsMade + 1
      /\ e.age >= SumSeq(e.waits)

\* C9 witness: the third attempt runs, the full scheduled delay having passed.
C9_Witness ==
  \E rid \in RetryIds :
    LET e == txRetryQueue[rid] IN
    e.state = "active" /\ e.attemptsMade = 2 /\ e.age = SumSeq(e.waits)

Snapshot == QueueStatus(Counts, metrics)

\* A step in which the attempt of Retry entry rid that is running fails.
RetryAttemptFails(rid) ==
  /\ txRetryQueue[rid].state = "active"
  /\ worker["retry"].job = <<rid>>
  /\ rid \in DOMAIN txRetryQueue'
  /\ txRetryQueue'[rid].attemptsMade = txRetryQueue[rid].attemptsMade + 1

\* C11: when a Retry entry fails its third attempt, the snapshot's failed
\* count of the Retry queue and its totalFailed metric each go up by exactly
\* one; an earlier failed attempt changes neither.
C11_ExhaustedCountedOnce ==
  [][\A rid \in RetryIds :
       RetryAttemptFails(rid) =>
         IF txRetryQueue'[rid].attemptsMade = 3
         THEN /\ Snapshot'.queues.retryFailed = Snapshot.queues.retryFailed + 1
              /\ Snapshot'.metrics.totalFailed = Snapshot.metrics.totalFailed + 1
         ELSE /\ Snapshot'.queues.retryFailed = Snapshot.queues.retryFailed
              /\ Snapshot'.metrics.totalFailed = Snapshot.metrics.totalFailed]_vars

\* C12: when a Retry entry fails its third attempt, the snapshot's
\* lastFailure becomes that job: its id and its type.
C12_LastFailureIsExhausted ==
  [][\A rid \in RetryIds :
       (RetryAttemptFails(rid) /\ txRetryQueue'[rid].attemptsMade = 3) =>
         /\ Snapshot'.metrics.lastFailure # <<>>
         /\ Snapshot'.metrics.lastFailure[1].jobId = rid
         /\ Snapshot'.metrics.lastFailure[1].type = txRetryQueue[rid].data.type]_vars

\* A step of the Main handler that is not the end of the process.
MainHandlerStep(id, pc) ==
  /\ worker["main"].job = <<id>>
  /\ worker["main"].pc = pc
  /\ worker'["main"] # worker["main"]
  /\ crashes' = crashes

C15_NextStartsAfterHandOff ==
  /\ \A id \in JobIds :
       /\ (worker["main"].job = <<id>> /\ RetryId(id) \in RetryIds) =>
            worker["main"].pc = "return"
       /\ HandedOff(id) => worker["main"].job # <<id>>
  /\ worker["main"].pc = "moveToRetry" => ENABLED moveToRetryQueue
  /\ worker["main"].pc = "return" => ENABLED MainReturnMovedToRetry
  /\ (worker["main"].pc = "idle" /\ mainWait # <<>>) => ENABLED processMainQueueJob

\* C15 witness: the second entry is being processed while the Retry entry of
\* the first, just handed off, has not waited at all yet.
C15_Witness ==
  /\ MaxJobs >= 2
  /\ HandedOff(1)
  /\ txQueue[2].state = "active"
  /\ txRetryQueue[RetryId(1)].state = "delayed"
  /\ txRetryQueue[RetryId(1)].age = 0
  /\ txRetryQueue[RetryId(1)].delayLeft = RetryInitialDelay

\* The job's place in the per-job state machine is a terminal one: confirmed
\* on its Main attempt, confirmed on a Retry attempt, or exhausted after the
\* third failed Retry attempt.
Terminal(id) ==
  \/ /\ txQueue[id].state = "completed"
     /\ txQueue[id].returnvalue # <<>>
     /\ txQueue[id].returnvalue[1].success
  \/ /\ HandedOff(id)
     /\ RetryId(id) \in RetryIds
     /\ \/ txRetryQueue[RetryId(id)].state = "completed"
        \/ /\ txRetryQueue[RetryId(id)].state = "failed"
           /\ txRetryQueue[RetryId(id)].attemptsMade = RetryAttempts

\* C16: every job admitted to the Main queue eventually reaches a terminal
\* state: confirmed on Main, confirmed on Retry, or exhausted.
C16_EveryJobTerminates ==
  \A id \in JobIds : (txQueue[id].state # "none") ~> Terminal(id)

\* A body the endpoint's job can be made from: a valid address, a reason that
\* is a string with something in it, a batch of 1 to 100 such entries, a
\* non-empty array of raffle ids.
GoodReason(r) == r \in {"spam", " spam "}
WellFormed(endpoint, body) ==
  CASE endpoint = "blocklist/add" -> isAddress(body.address) /\ GoodReason(body.reason)
    [] endpoint = "blocklist/remove" -> isAddress(body.address)
    [] endpoint = "blocklist/add-batch" ->
         /\ body.entries.kind = "array"
         /\ Len(body.entries.items) \in 1..100
         /\ \A k \in 1..Len(body.entries.items) :
              /\ isAddress(body.entries.items[k].address)
              /\ GoodReason(body.entries.items[k].reason)
    [] endpoint = "archive-raffles" ->
         body.raffleIds.kind = "array" /\ Len(body.raffleIds.items) > 0
    [] endpoint = "withdraw-fees" -> TRUE

\* C20: a request whose body fails validation is answered 400 by the
\* controller itself: it never gets to enqueueTransaction, and no job is made
\* from it.
C20_InvalidIs400 ==
  (api.body # <<>> /\ ~WellFormed(api.endpoint, api.body[1])) =>
    /\ api.pc = "idle"
    /\ api.job = <<>>
    /\ api.response # <<>>
    /\ api.response[1].code = 400

\* A status request has been answered with a snapshot.
Answered == status.response # <<>> /\ status.response[1].code = 200

HasWarning(w) ==
  \E k \in 1..Len(status.response[1].warnings) : status.response[1].warnings[k] = w

\* The failed and the finished jobs among the counts the answer was made from.
FailedJobs == status.counts[1].mainFailed + status.counts[1].retryFailed
FinishedJobs ==
  status.counts[1].mainCompleted + status.counts[1].mainFailed
    + status.counts[1].retryCompleted + status.counts[1].retryFailed

\* C17: the snapshot has the 'High failure rate' warning exactly when the
\* failed jobs are more than a tenth of the finished ones (none when nothing
\* has finished): not at 3 of 30, but at 1001 of 10000 (10.01%).
C17_HighFailureRateWarning ==
  Answered =>
    /\ HasWarning("High failure rate") <=>
         (FinishedJobs > 0 /\ 10 * FailedJobs > FinishedJobs)
    /\ (FailedJobs = 3 /\ FinishedJobs = 30) => ~HasWarning("High failure rate")
    /\ (FailedJobs = 1001 /\ FinishedJobs = 10000) =>
         /\ HasWarning("High failure rate")
         /\ status.response[1].health # "healthy"
         /\ status.response[1].metrics.failureRate = 1001
    /\ FinishedJobs = 0 => status.response[1].metrics.failureRate = 0

\* C17 witness: a snapshot at exactly 10% (2 + 1 failed, 27 completed), and
\* without the warning.
C17_Witness ==
  /\ Answered
  /\ status.counts[1].mainFailed = 2 /\ status.counts[1].retryFailed = 1
  /\ status.counts[1].mainCompleted = 27
  /\ status.response[1].metrics.failureRate = 1000
  /\ ~HasWarning("High failure rate")

\* The waiting and delayed entries of both queues among the counts.
WaitingAndDelayed ==
  status.counts[1].mainWaiting + status.counts[1].mainDelayed
    + status.counts[1].retryWaiting + status.counts[1].retryDelayed

\* C18: the snapshot has the 'Large backlog' warning exactly when the waiting
\* and delayed entries of both queues are more than 100; with 101 the health
\* is not 'healthy', with 100 the warning is absent.
C18_LargeBacklogWarning ==
  Answered =>
    /\ HasWarning("Large backlog") <=> WaitingAndDelayed >= 101
    /\ WaitingAndDelayed = 101 => status.response[1].health # "healthy"
    /\ status.response[1].metrics.backlogSize = WaitingAndDelayed

\* C18 witness: a snapshot with a backlog of 101 made up of both queues.
C18_Witness ==
  /\ Answered
  /\ WaitingAndDelayed = 101
  /\ status.counts[1].mainWaiting = 1 /\ status.counts[1].retryDelayed = 100
  /\ HasWarning("Large backlog")

\* C19: health is 'critical' exactly when more than 5 jobs have stalled or a
\* queue, Main or Retry, has entries waiting and none active; otherwise
\* 'warning' exactly when the failure rate is over 10% or the backlog over
\* 100; otherwise 'healthy'.
C19_HealthClassification ==
  Answered =>
    LET c == status.counts[1]
        critical == \/ metrics.stalledJobs > 5
                    \/ (c.mainActive = 0 /\ c.mainWaiting > 0)
                    \/ (c.retryActive = 0 /\ c.retryWaiting > 0)
        warning == \/ (FinishedJobs > 0 /\ 10 * FailedJobs > FinishedJobs)
                   \/ WaitingAndDelayed > 100
    IN status.response[1].health =
         IF critical THEN "critical" ELSE IF warning THEN "warning" ELSE "healthy"
\* ------------------------------------------------------------ C23 .. C24
\* C23: a request to /health that carries no X-API-Key header, or a wrong
\* one, reaches healthCheck and is answered with success true and status
\* 'healthy'.
C23_HealthNeedsNoKey ==
  gate.path = "/health" /\ gate.apiKey # RELAYER_API_KEY =>
    /\ gate.code = 200
    /\ gate.handler = "healthCheck"
    /\ gate.body = <<[success |-> TRUE, status |-> "healthy"]>>

\* C24: for each client IP, the requests rateLimitMiddleware has let through
\* within any 60 seconds (here: the ones less than WindowMs old) are no more
\* than requestsPerMinute.
C24_AtMostLimitPerMinute ==
  \A ip \in ClientIPs : Len(admitted[ip]) <= requestsPerMinute

\* ------------------------------------------------------------------- C22
\* An entry of a queue gets its success result in this step.
MainResultStep(id) ==
  /\ txQueue[id].state = "active"
  /\ txQueue'[id].state = "completed"
  /\ txQueue'[id].returnvalue[1].success

\* The field of a record, when it has one.
Has(r, field, value) == field \in DOMAIN r /\ r[field] = value

\* C22: when the Executor succeeds for a Main-queue job, the entry's result
\* has success true, the hash of the transaction the handler submitted, and
\* the echo of the payload: referenceId for create-raffle, raffleId for
\* execute-raffle, cancel-raffle and execute-refund (both as decimal strings),
\* address for a single blocklist add or remove, count (the list length) for
\* the batch blocklist add and for archive.
C22_ResultEchoesPayload ==
  [][\A id \in JobIds :
       MainResultStep(id) =>
         LET r == txQueue'[id].returnvalue[1]
             d == txQueue[id].data IN
         /\ r.success = TRUE
         /\ worker["main"].job = <<id>>
         /\ worker["main"].tx # <<>>
         /\ Has(r, "txHash", worker["main"].tx[1].hash)
         /\ d.type = "create-raffle" => Has(r, "referenceId", ToString(d.referenceId))
         /\ d.type \in {"execute-raffle", "cancel-raffle", "execute-refund"} =>
              Has(r, "raffleId", ToString(d.raffleId))
         /\ d.type \in {"add-to-blocklist", "remove-from-blocklist"} =>
              Has(r, "address", d.address)
         /\ d.type = "add-to-blocklist-batch" => Has(r, "count", Len(d.addresses))
         /\ d.type = "archive-raffles" => Has(r, "count", Len(d.raffleIds))]_vars

\* A create-raffle job with referenceId 1 has succeeded on its Main attempt:
\* its result carries a hash and referenceId "1".
C22_Witness ==
  \E id \in JobIds :
    /\ txQueue[id].state = "completed"
    /\ txQueue[id].data.type = "create-raffle"
    /\ txQueue[id].data.referenceId = 1
    /\ txQueue[id].returnvalue[1].success
    /\ txQueue[id].returnvalue[1].txHash = TxHash(0)
    /\ txQueue[id].returnvalue[1].referenceId = "1"

\* ------------------------------------------------------------------- C21
\* C21: the step in which a controller's await of enqueueTransaction ends
\* either admits the job and answers 200 with success true and the job's id,
\* the entry still waiting, never delivered to the handler and nothing
\* broadcast for it, or admits nothing and answers 500 with success false;
\* and the answer is never held back by the worker: whatever the consumer is
\* doing, the controller at its await can go on.
C21_AnsweredOnAdmission ==
  /\ [](api.pc = "enqueue" /\ jobCounter < MaxJobs => ENABLED apiEnqueued)
  /\ [][api.pc = "enqueue" /\ api'.pc = "idle" =>
         IF jobCounter' # jobCounter
         THEN /\ jobCounter' = jobCounter + 1
              /\ api'.response = <<[code |-> 200, success |-> TRUE,
                                    jobId |-> jobCounter']>>
              /\ txQueue'[jobCounter'].state = "waiting"
              /\ txQueue'[jobCounter'].data = api.job[1]
              /\ txQueue'[jobCounter'].calls = 0
              /\ broadcasts'[jobCounter'] = 0
         ELSE /\ api'.response = <<[code |-> 500, success |-> FALSE, jobId |-> 0]>>
              /\ UNCHANGED <<txQueue, mainWait>>]_vars

\* The controller has answered 200 for the second job while the Executor is
\* still waiting for the confirmation of the first job's transaction, the
\* second job waiting in the queue.
C21_Witness ==
  /\ MaxJobs >= 2
  /\ api.pc = "idle"
  /\ api.response = <<[code |-> 200, success |-> TRUE, jobId |-> 2]>>
  /\ txQueue[2].state = "waiting"
  /\ worker["main"].job = <<1>>
  /\ worker["main"].pc = "wait"

\* ------------------------------------------------------------------- C25
\* The handler of a Retry entry, inside the Executor, ends in this step.
RetryHandlerEnds(rid) ==
  /\ worker["retry"].job = <<rid>>
  /\ worker["retry"].pc \in ExecutorPcs
  /\ worker'["retry"] = Idle
  /\ crashes' = crashes

\* C25: an attempt of a Retry entry ends in one of two ways.  Either the
\* confirmation wait has resolved and the entry is completed with success
\* true and wasRetry true; or the Executor has failed, the handler throws,
\* and the queue records a failed attempt: the attempt counter advances by
\* one, the entry gets no result and is delayed for the next attempt, or
\* failed when it was the last one.  A failed attempt never completes the
\* entry.
C25_RetryRethrows ==
  [][\A rid \in DOMAIN txRetryQueue :
       RetryHandlerEnds(rid) =>
         LET e == txRetryQueue[rid]
             f == txRetryQueue'[rid] IN
         \/ /\ worker["retry"].pc = "wait"
            /\ f.state = "completed"
            /\ f.attemptsMade = e.attemptsMade
            /\ f.returnvalue # <<>>
            /\ f.returnvalue[1].success = TRUE
            /\ f.returnvalue[1].wasRetry = TRUE
         \/ /\ f.attemptsMade = e.attemptsMade + 1
            /\ f.returnvalue = <<>>
            /\ f.state = IF f.attemptsMade >= RetryAttempts THEN "failed"
                         ELSE "delayed"]_vars

\* Two attempts of a Retry entry have failed and been recorded, the entry is
\* delayed for its third.
C25_Witness ==
  \E rid \in DOMAIN txRetryQueue :
    /\ txRetryQueue[rid].state = "delayed"
    /\ txRetryQueue[rid].attemptsMade = 2
    /\ txRetryQueue[rid].calls = 2
    /\ txRetryQueue[rid].returnvalue = <<>>

\* ------------------------------------------------------------------- C26
\* The entry a consumer's handler holds gets a success result in this step.
SuccessStep(c) ==
  /\ worker[c].job # <<>>
  /\ LET j == worker[c].job[1]
         q == IF c = "main" THEN txQueue ELSE txRetryQueue
         r == IF c = "main" THEN txQueue' ELSE txRetryQueue' IN
       /\ q[j].returnvalue = <<>>
       /\ r[j].returnvalue # <<>>
       /\ r[j].returnvalue[1].success

ExecutorFailsAt(c, pc) ==
  /\ worker[c].pc = pc
  /\ IF c = "main" THEN worker'[c].pc = "moveToRetry" ELSE worker'[c] = Idle

\* C27: a call of execute-raffle, cancel-raffle or execute-refund is made
\* after a gas estimate, with gas limit floor(estimate * 120 / 100), which is
\* no less than the estimate; a call of any other type is made without a gas
\* limit; and when the estimation fails the handler fails with no call made
\* and nothing broadcast.
C27_GasLimitWithMargin ==
  /\ [](\A c \in Consumers :
          worker[c].pc = "send" =>
            IF JobOf(c).type \in {"execute-raffle", "cancel-raffle", "execute-refund"}
            THEN /\ worker[c].gasEstimate # <<>>
                 /\ worker[c].gasLimit # <<>>
                 /\ worker[c].gasEstimate[1] >= 0
                 /\ 100 * worker[c].gasLimit[1] <= 120 * worker[c].gasEstimate[1]
                 /\ 120 * worker[c].gasEstimate[1] < 100 * (worker[c].gasLimit[1] + 1)
                 /\ worker[c].gasLimit[1] >= worker[c].gasEstimate[1]
            ELSE worker[c].gasLimit = <<>> /\ worker[c].gasEstimate = <<>>)
  /\ [][\A c \in Consumers :
          worker[c].pc = "estimateGas"
            /\ worker'[c].pc \notin {"estimateGas", "getNonce"} =>
            /\ ExecutorFailsAt(c, "estimateGas")
            /\ worker[c].submitted = <<>>
            /\ broadcasts' = broadcasts
            /\ pendingNonce' = pendingNonce]_vars

\* An execute-raffle call is in flight with gas limit 6 for an estimate of 5.
C27_Witness ==
  /\ worker["main"].pc = "send"
  /\ JobOf("main").type = "execute-raffle"
  /\ worker["main"].gasEstimate = <<5>>
  /\ worker["main"].gasLimit = <<6>>
  /\ worker["main"].submitted = <<"executeRaffle">>

\* ------------------------------------------------------------------- C28
\* The Executor calls made for a job so far: one per delivery of its Main
\* entry and of its Retry entry.
Invocations(id) ==
  txQueue[id].calls
    + (IF RetryId(id) \in DOMAIN txRetryQueue THEN txRetryQueue[RetryId(id)].calls
       ELSE 0)

\* C28: within one invocation the Executor makes at most one contract call,
\* the one its job type selects, and none for a type it does not know; when
\* it fails (at the estimate, the call, the wait, or on an unknown type) the
\* handler fails in that very step, with no further call; so a job never has
\* more transactions broadcast than Executor invocations.
C28_NoInternalRetry ==
  /\ [](\A c \in Consumers :
          /\ Len(worker[c].submitted) <= 1
          /\ worker[c].submitted # <<>> =>
               /\ JobOf(c).type \in KnownTypes
               /\ worker[c].submitted = <<ContractMethod(JobOf(c).type)>>
          /\ worker[c].pc = "default" => worker[c].submitted = <<>>)
  /\ [](\A id \in JobIds :
          /\ broadcasts[id] <= Invocations(id)
          /\ txQueue[id].data.type \notin KnownTypes => broadcasts[id] = 0)
  /\ [][\A c \in Consumers : \A pc \in ExecutorPcs :
          ExecutorFailsAt(c, pc) =>
            /\ Len(worker[c].submitted) = IF pc \in {"send", "wait"} THEN 1 ELSE 0
            /\ broadcasts' = broadcasts
            /\ pendingNonce' = pendingNonce]_vars

\* A withdraw-fees job whose one contract call was rejected: the Main handler
\* is in its catch block, one call made, nothing broadcast.
C28_Witness ==
  /\ worker["main"].pc = "moveToRetry"
  /\ worker["main"].submitted = <<"withdrawPlatformFees">>
  /\ txQueue[1].data.type = "withdraw-fees"
  /\ txQueue[1].calls = 1
  /\ broadcasts[1] = 0

\* ------------------------------------------------------------ C29 .. C30
\* No counter of the Monitor is lower after the step than before.
CountersGrow ==
  /\ metrics'.completedJobs >= metrics.completedJobs
  /\ metrics'.failedJobs >= metrics.failedJobs
  /\ metrics'.stalledJobs >= metrics.stalledJobs

QueueVars == <<txQueue, mainWait, txRetryQueue, retryWait, jobCounter>>

\* C29: while the process stays up, no lifecycle event and no status read
\* lowers a counter of the Monitor (a status read changes none); the one step
\* that does is resetMetrics, which sets all three to 0 and clears
\* lastFailure, and touches nothing else.
C29_CountersMonotone ==
  [][crashes' = crashes =>
       /\ \/ CountersGrow
          \/ /\ metrics' = [completedJobs |-> 0, failedJobs |-> 0,
                            stalledJobs |-> 0, lastFailure |-> <<>>]
             /\ UNCHANGED <<QueueVars, worker, status>>
       /\ status' # status => metrics' = metrics]_vars

\* The process has not restarted, events have been counted (a Main entry is
\* completed, another has failed), and the counters are back at 0 with no
\* last failure: resetMetrics has run.
C29_Witness ==
  /\ crashes = 0
  /\ \E id \in JobIds : txQueue[id].state = "completed"
  /\ \E id \in JobIds : txQueue[id].state = "failed"
  /\ metrics = NoMetrics

\* The entries of a queue other than one are as they were.
OthersUnchanged(q, r, id) ==
  /\ DOMAIN r = DOMAIN q
  /\ \A i \in DOMAIN q \ {id} : r[i] = q[i]

\* C30: a status read (and a reset of the counters) leaves both queues as
\* they are; and a step in which the Monitor counts an event of the Main
\* queue changes nothing in the queues but the one transition the event
\* reports: one active entry is completed, failed or put back to wait, its
\* payload kept, its attempt counter advanced only by a failed attempt; every
\* other entry, the Retry queue and the ids assigned stay as they were.
C30_MonitorReadsOnly ==
  [][crashes' = crashes =>
       /\ status' # status => UNCHANGED <<QueueVars, metrics>>
       /\ metrics' # metrics =>
            \/ UNCHANGED QueueVars
            \/ \E id \in JobIds :
                 /\ txQueue[id].state = "active"
                 /\ txQueue'[id].state \in {"completed", "failed", "waiting"}
                 /\ txQueue'[id].data = txQueue[id].data
                 /\ txQueue'[id].calls = txQueue[id].calls
                 /\ txQueue'[id].attemptsMade \in
                      {txQueue[id].attemptsMade} \cup
                      (IF txQueue'[id].state = "failed"
                       THEN {txQueue[id].attemptsMade + 1} ELSE {})
                 /\ OthersUnchanged(txQueue, txQueue', id)
                 /\ UNCHANGED <<txRetryQueue, retryWait, jobCounter>>
                 /\ mainWait' = IF txQueue'[id].state = "waiting"
                                THEN <<id>> \o mainWait ELSE mainWait]_vars

\* A status read has been answered while one entry is active, the others
\* completed: the snapshot counts them, and they are where they were.
C30_Witness ==
  /\ status.pc = "idle"
  /\ status.response # <<>>
  /\ status.response[1].success
  /\ status.counts = <<Counts>>
  /\ Counts.mainActive = 1
  /\ Counts.mainCompleted = MaxJobs - 1
  /\ metrics.completedJobs + metrics.failedJobs + metrics.stalledJobs = 0

\* ------------------------------------------------------------------- C31
\* The paths of the sensitive operations: those behind sensitiveLimiter.
SensitivePaths == {path \in Paths : Entered(path) # <<>>}

\* C31: the allowance of one request per five minutes is kept per operation:
\* sensitiveLimiter refuses a client's request for a sensitive operation only
\* if that client was let through for the same operation less than five
\* minutes before; a request for another operation consumes nothing of it.
C31_AllowancePerOperation ==
  [][\A ip \in ClientIPs : \A path \in SensitivePaths :
       (request(ip, path, RELAYER_API_KEY) /\ gate'.handler = "sensitiveLimiter") =>
         \E k \in 1..Len(sensitiveOps[ip]) : sensitiveOps[ip][k].path = path]_vars

\* ------------------------------------------------------------------- C32
\* The entry a consumer held has finished processing: the handler is done
\* with it and the queue has recorded how the attempt ended (a Main entry is
\* completed or failed, a Retry entry also delayed for its next attempt, or
\* waiting for it once the delay has passed, and not delivered again).
Finished(c, job) ==
  \/ job = <<>>
  \/ /\ worker[c].job # job
     /\ IF c = "main" THEN txQueue[job[1]].state \in {"completed", "failed"}
        ELSE /\ txRetryQueue[job[1]].state # "active"
             /\ txRetryQueue[job[1]].attemptsMade = txRetryQueue[job[1]].calls
                  \/ txRetryQueue[job[1]].state = "completed"

RetryEntriesOf(id) == {rid \in DOMAIN txRetryQueue : txRetryQueue[rid].origin = id}

MainSucceededFor(id) ==
  /\ txQueue[id].state = "completed"
  /\ txQueue[id].returnvalue # <<>>
  /\ txQueue[id].returnvalue[1].success

\* C34: while the process stays up, the Executor is invoked at most 4 times
\* for a job: once for its Main entry and at most 3 times for its Retry
\* entry; a handler inside the Executor works on a delivery that was
\* counted; and a job whose Main attempt succeeded was invoked exactly once
\* and has no Retry entry.
C34_AtMostFourInvocations ==
  \A id \in JobIds :
    /\ txQueue[id].calls <= 1
    /\ \A rid \in RetryEntriesOf(id) : txRetryQueue[rid].calls <= 3
    /\ Invocations(id) <= 4
    /\ \A c \in Consumers :
         (worker[c].pc \in ExecutorPcs /\ OriginOf(c) = id) =>
           (IF c = "main" THEN txQueue[id].calls
            ELSE txRetryQueue[worker[c].job[1]].calls) >= 1
    /\ MainSucceededFor(id) =>
         /\ Invocations(id) = 1
         /\ RetryEntriesOf(id) = {}
         /\ broadcasts[id] = 1

\* A job has been through all four invocations: its Main attempt and three
\* Retry attempts failed.
C34_Witness ==
  \E id \in JobIds :
    /\ HandedOff(id)
    /\ txQueue[id].calls = 1
    /\ txRetryQueue[RetryId(id)].calls = 3
    /\ txRetryQueue[RetryId(id)].state = "failed"
    /\ Invocations(id) = 4

\* ------------------------------------------------------------------- C35
\* C35: a Main entry is completed with movedToRetry only in a step before
\* which its Retry entry, with the Main entry's payload, is already in the
\* Retry queue, so a handed-off entry always has its Retry entry; and when
\* the add of the hand-off is rejected the handler throws: no Retry entry is
\* made, the Main entry is failed without a result and stays failed, and the
\* Monitor counts the failure and records it as the last one.
C35_HandOffAllOrNothing ==
  /\ [](\A id \in JobIds : HandedOff(id) => RetryEntriesOf(id) = {RetryId(id)})
  /\ [][\A id \in JobIds :
          /\ (txQueue[id].state # "completed" /\ HandedOff(id)') =>
               /\ MainHandlerStep(id, "return")
               /\ RetryId(id) \in DOMAIN txRetryQueue
               /\ txRetryQueue[RetryId(id)].data = txQueue[id].data
               /\ txRetryQueue' = txRetryQueue
          /\ (MainHandlerStep(id, "moveToRetry") /\ worker'["main"].pc # "return") =>
               /\ txRetryQueue' = txRetryQueue
               /\ txQueue'[id].state = "failed"
               /\ txQueue'[id].returnvalue = <<>>
               /\ metrics'.failedJobs = metrics.failedJobs + 1
               /\ metrics'.completedJobs = metrics.completedJobs
               /\ metrics'.lastFailure =
                    <<[jobId |-> id, type |-> txQueue[id].data.type,
                       error |-> AddError]>>
          /\ txQueue[id].state = "failed" => txQueue'[id] = txQueue[id]]_vars

\* The add of a hand-off was rejected: the Main entry is failed, it has no
\* Retry entry, and the Monitor has counted and recorded the failure.
C35_Witness ==
  \E id \in JobIds :
    /\ txQueue[id].state = "failed"
    /\ txQueue[id].stalledCounter = 0
    /\ RetryEntriesOf(id) = {}
    /\ metrics.failedJobs = 1
    /\ metrics.lastFailure =
         <<[jobId |-> id, type |-> txQueue[id].data.type, error |-> AddError]>>

\* ------------------------------------------------------------------- C36
\* How many times a report was logged for the job with a Main id.
Reported(id, text) ==
  Cardinality({k \in 1..Len(reports[id]) : reports[id][k] = text})

\* C36: for a Retry entry 'FAILED PERMANENTLY' (Worker) and 'EXHAUSTED'
\* (Monitor) are each reported exactly once, when the third attempt has
\* failed, and not before; every failed attempt that the queue retries is
\* reported by the Monitor as 'will retry'.
C36_FinalAttemptReportedOnce ==
  \A id \in JobIds :
    RetryId(id) \in DOMAIN txRetryQueue =>
      LET e == txRetryQueue[RetryId(id)]
          final == e.state = "failed" /\ e.attemptsMade = RetryAttempts
          retried == IF final THEN e.attemptsMade - 1 ELSE e.attemptsMade IN
      /\ Reported(id, "FAILED PERMANENTLY") = (IF final THEN 1 ELSE 0)
      /\ Reported(id, "EXHAUSTED") = (IF final THEN 1 ELSE 0)
      /\ Reported(id, "will retry") = retried

\* ------------------------------------------------------------------- C37
\* The Main entries for which the step emits 'completed' or 'failed' (the
\* entry enters that state), and 'stalled' (an active entry is put back).
MainEntered(state) ==
  {id \in JobIds : txQueue[id].state # state /\ txQueue'[id].state = state}

MainPutBack ==
  {id \in JobIds : txQueue[id].state = "active" /\ txQueue'[id].state = "waiting"}

\* The step emits a lifecycle event of the Retry queue: an entry is completed
\* or failed, an attempt failed and is delayed for the next, or a stalled
\* entry is put back.
RetryEvent ==
  \E rid \in DOMAIN txRetryQueue :
    /\ txRetryQueue'[rid].state # txRetryQueue[rid].state
    /\ \/ txRetryQueue'[rid].state \in {"completed", "failed"}
       \/ /\ txRetryQueue[rid].state = "active"
          /\ txRetryQueue'[rid].state \in {"delayed", "waiting"}

\* C37: a step with a Retry-queue event leaves the metrics as they are; a
\* step in which entries of a queue move adds to completedJobs, failedJobs
\* and stalledJobs exactly the Main events of the step and changes
\* lastFailure only on a Main failure; every other change of the metrics is
\* a reset of all three counters to zero.
C37_RetryEventsNotCounted ==
  [][/\ RetryEvent => metrics' = metrics
     /\ (txQueue' # txQueue \/ txRetryQueue' # txRetryQueue) =>
          /\ metrics'.completedJobs =
               metrics.completedJobs + Cardinality(MainEntered("completed"))
          /\ metrics'.failedJobs =
               metrics.failedJobs + Cardinality(MainEntered("failed"))
          /\ metrics'.stalledJobs =
               metrics.stalledJobs + Cardinality(MainPutBack)
          /\ MainEntered("failed") = {} => metrics'.lastFailure = metrics.lastFailure
     /\ (txQueue' = txQueue /\ txRetryQueue' = txRetryQueue
         /\ metrics' # metrics) =>
          /\ metrics'.completedJobs = 0
          /\ metrics'.failedJobs = 0
          /\ metrics'.stalledJobs = 0]_vars

\* A job was handed off and its Retry entry has failed all three attempts:
\* the Monitor has counted the Main completion and nothing else.
C37_Witness ==
  \E id \in JobIds :
    /\ HandedOff(id)
    /\ RetryId(id) \in DOMAIN txRetryQueue
    /\ txRetryQueue[RetryId(id)].state = "failed"
    /\ txRetryQueue[RetryId(id)].attemptsMade = RetryAttempts
    /\ metrics = [NoMetrics EXCEPT !.completedJobs = 1]

\* ------------------------------------------------------------------- C38
\* C38: while a timed-out handler's Executor call is pending its queue's
\* consumer starts no job, and a step of a timed-out handler broadcasts no
\* transaction and adds no entry to the Retry queue.
C38_TimeoutEndsTheHandler ==
  /\ [](\A c \in Consumers :
          timedOut[c].pc \in ExecutorPcs => worker[c].pc = "idle")
  /\ [][\A c \in Consumers :
          (timedOut[c] # NoOrphan /\ timedOut'[c] # timedOut[c]) =>
            /\ broadcasts' = broadcasts
            /\ txRetryQueue' = txRetryQueue]_vars

\* ------------------------------------------------------------------- C39
\* The entries a snapshot counts in each queue, over the five states.
CountedIn(c, q) ==
  IF q = "main"
  THEN c.mainWaiting + c.mainActive + c.mainCompleted + c.mainFailed
         + c.mainDelayed
  ELSE c.retryWaiting + c.retryActive + c.retryCompleted + c.retryFailed
         + c.retryDelayed

\* C39: the ten counts a status request has obtained describe the queues at
\* one moment of the read: while no entry is added to the Main queue every
\* Main entry is counted in exactly one state, and no Retry entry is counted
\* in two.
C39_SnapshotAtOnePoint ==
  status.pc = "counts" =>
    /\ CountedIn(status.counts[1], "main") =
         Cardinality({id \in JobIds : txQueue[id].state # "none"})
    /\ CountedIn(status.counts[1], "retry") <= Cardinality(DOMAIN txRetryQueue)

====
